---- MODULE Spec2Model ----
(***************************************************************************)
(* nexo-tax: classification of exchange rows, FX enrichment, the FIFO lot  *)
(* ledger and the per-year aggregation of api.run / cli.main.              *)
(***************************************************************************)
EXTENDS Integers, Sequences, FiniteSets, TLC

(***************************************************************************)
(* decimal.Decimal.  A value is <<c, e>> = c * 10^e, kept normalised (no   *)
(* trailing zero in c; zero is <<0, 0>>), so that equality of tuples is    *)
(* Python's numeric ==.  Every arithmetic result is rounded half-even to   *)
(* the context precision, as the decimal module does.  The module works    *)
(* with 28 significant digits; the model carries DecPrec digits.           *)
(***************************************************************************)
DecPrec == 3

Abs(n) == IF n < 0 THEN -n ELSE n

Sign(n) == IF n < 0 THEN -1 ELSE 1

RECURSIVE Digits(_)
Digits(n) == IF Abs(n) < 10 THEN 1 ELSE 1 + Digits(Abs(n) \div 10)

RECURSIVE DecNorm(_, _)
DecNorm(c, e) ==
    IF c = 0 THEN <<0, 0>>
    ELSE IF c % 10 = 0 THEN DecNorm(c \div 10, e + 1)
    ELSE <<c, e>>

\* Context rounding (ROUND_HALF_EVEN) of c * 10^e to DecPrec significant digits.
DecRound(c, e) ==
    IF Digits(c) <= DecPrec THEN DecNorm(c, e)
    ELSE LET k    == Digits(c) - DecPrec
             q    == Abs(c) \div (10 ^ k)
             r    == Abs(c) % (10 ^ k)
             half == 5 * (10 ^ (k - 1))
             up   == (r > half) \/ (r = half /\ q % 2 = 1)
             q2   == IF up THEN q + 1 ELSE q
         IN  DecNorm(Sign(c) * q2, e + k)

Dec(n) == DecNorm(n, 0)

DecZero == Dec(0)

DecNeg(a) == <<-a[1], a[2]>>

DecMinExp(a, b) == IF a[2] < b[2] THEN a[2] ELSE b[2]

\* The coefficient of a at the exponent m <= a[2].
DecCoef(a, m) == a[1] * (10 ^ (a[2] - m))

DecAdd(a, b) ==
    LET m == DecMinExp(a, b)
    IN  DecRound(DecCoef(a, m) + DecCoef(b, m), m)

DecSub(a, b) == DecAdd(a, DecNeg(b))

DecMul(a, b) == DecRound(a[1] * b[1], a[2] + b[2])

DecLT(a, b) ==
    LET m == DecMinExp(a, b)
    IN  DecCoef(a, m) < DecCoef(b, m)

DecLE(a, b) == ~DecLT(b, a)

DecAbs(a) == <<Abs(a[1]), a[2]>>

\* Python's min(a, b): the first argument unless the second is smaller.
DecMin(a, b) == IF DecLT(b, a) THEN b ELSE a

\* a / b for b # 0: the quotient is carried to DecPrec + 1 digits and a sticky
\* digit for the remainder, then rounded to the context precision.
DecDiv(a, b) ==
    LET s  == DecPrec + 1 + Digits(b[1]) - Digits(a[1])
        n  == Abs(a[1]) * (10 ^ s)
        q  == n \div Abs(b[1])
        r  == n % Abs(b[1])
        q2 == 10 * q + (IF r = 0 THEN 0 ELSE 1)
    IN  DecRound(Sign(a[1]) * Sign(b[1]) * q2, a[2] - b[2] - s - 1)

(***************************************************************************)
(* Time.  A datetime is a number of ticks; .date() and .year are read off  *)
(* it.  The model's calendar has DaysPerYear days of TicksPerDay ticks.    *)
(***************************************************************************)
TicksPerDay == 2

DaysPerYear == 3

Years == {2024, 2025}

At(year, day, tick) == ((year - 2024) * DaysPerYear + day) * TicksPerDay + tick

DateOf(dt) == dt \div TicksPerDay

YearOf(dt) == 2024 + (DateOf(dt) \div DaysPerYear)

(***************************************************************************)
(* parser.py / api.py: currency classes and field conversions.             *)
(***************************************************************************)
_INTEREST_TYPES == {"Interest", "Fixed Term Interest", "Exchange Cashback"}

_USD_CURRENCIES == {"USD", "xUSD", "USDX"}

_FIAT_CURRENCIES == {"EUR", "EURX", "USD", "xUSD", "USDX"}

_is_crypto(currency) == currency \notin _FIAT_CURRENCIES

\* A USD Equivalent field is <<"$", n>> or <<n>>; lstrip("$") drops the symbol.
_parse_usd(val) == Dec(val[Len(val)])

\* A Details field is <<"approved / ", text>> or <<text>>.
_extract_merchant(details) == details[Len(details)]

\* One CSV row, after csv.DictReader: amounts are the numbers their text denotes.
Row(tx, type, in_cur, in_amt, out_cur, out_amt, usd, date) ==
    [Transaction |-> tx, Type |-> type, InputCurrency |-> in_cur, InputAmount |-> in_amt,
     OutputCurrency |-> out_cur, OutputAmount |-> out_amt, USDEquivalent |-> <<"$", usd>>,
     Details |-> <<"approved / ", tx>>, DateTime |-> date]

EmptyResult ==
    [cashback_events |-> <<>>, cashback_reversal_events |-> <<>>, interest_events |-> <<>>,
     exchange_buy_events |-> <<>>, fx_observations |-> <<>>, disposal_events |-> <<>>,
     card_purchase_events |-> <<>>, repayment_events |-> <<>>]

DisposalEvent(row) ==
    [tx_id |-> row.Transaction, date |-> row.DateTime, asset |-> row.InputCurrency,
     quantity |-> DecAbs(Dec(row.InputAmount)), proceeds_usd |-> _parse_usd(row.USDEquivalent),
     proceeds_eur |-> DecZero, fee_eur |-> DecZero,
     description |-> _extract_merchant(row.Details)]

\* An Exchange branch that stops at the first side that matches.
ClassifyExchangeOneSide(res, row) ==
    IF _is_crypto(row.InputCurrency)
    THEN [res EXCEPT !.disposal_events = Append(@, DisposalEvent(row))]
    ELSE IF _is_crypto(row.OutputCurrency)
    THEN [res EXCEPT !.exchange_buy_events = Append(@,
             [tx_id |-> row.Transaction, date |-> row.DateTime,
              asset |-> row.OutputCurrency, amount |-> Dec(row.OutputAmount),
              spent_amount |-> DecAbs(Dec(row.InputAmount)),
              spent_currency |-> row.InputCurrency,
              value_usd |-> _parse_usd(row.USDEquivalent), value_eur |-> DecZero])]
    ELSE res

\* The Exchange / Exchange Collateral branch: the two tests are independent.
ClassifyExchange(res, row) ==
    LET sold ==
            IF _is_crypto(row.InputCurrency)
            THEN [res EXCEPT !.disposal_events = Append(@, DisposalEvent(row))]
            ELSE res
    IN  IF _is_crypto(row.OutputCurrency)
        THEN [sold EXCEPT !.exchange_buy_events = Append(@,
                 [tx_id |-> row.Transaction, date |-> row.DateTime,
                  asset |-> row.OutputCurrency, amount |-> Dec(row.OutputAmount),
                  spent_amount |-> DecAbs(Dec(row.InputAmount)),
                  spent_currency |-> row.InputCurrency,
                  value_usd |-> _parse_usd(row.USDEquivalent), value_eur |-> DecZero])]
        ELSE sold

\* A row loop that takes every interest row for an interest event.
ClassifyRowAnyInterest(res, row) ==
    IF row.Type \in _INTEREST_TYPES
    THEN [res EXCEPT !.interest_events = Append(@,
             [tx_id |-> row.Transaction, date |-> row.DateTime, asset |-> row.InputCurrency,
              amount |-> Dec(row.InputAmount), value_usd |-> _parse_usd(row.USDEquivalent),
              value_eur |-> DecZero, source |-> row.Type])]
    ELSE IF row.Type \in {"Exchange", "Exchange Collateral"}
    THEN ClassifyExchange(res, row)
    ELSE res

\* The body of the row loop of parse_csv_from_string: the events one row appends.
ClassifyRow(res, row) ==
    LET tx_type        == row.Type
        tx_id          == row.Transaction
        date           == row.DateTime
        input_currency == row.InputCurrency
        input_amount   == Dec(row.InputAmount)
        output_currency == row.OutputCurrency
        value_usd      == _parse_usd(row.USDEquivalent)
        merchant       == _extract_merchant(row.Details)
    IN  IF tx_type = "Cashback" /\ input_currency = "NEXO"
        THEN [res EXCEPT !.cashback_events = Append(@,
                 [tx_id |-> tx_id, date |-> date, amount_nexo |-> input_amount,
                  value_usd |-> value_usd, value_eur |-> DecZero, merchant |-> merchant])]
        ELSE IF tx_type \in _INTEREST_TYPES /\ DecLT(DecZero, input_amount)
                /\ _is_crypto(input_currency)
        THEN [res EXCEPT !.interest_events = Append(@,
                 [tx_id |-> tx_id, date |-> date, asset |-> input_currency,
                  amount |-> input_amount, value_usd |-> value_usd,
                  value_eur |-> DecZero, source |-> tx_type])]
        ELSE IF tx_type = "Nexo Card Cashback Reversal"
        THEN [res EXCEPT !.cashback_reversal_events = Append(@,
                 [tx_id |-> tx_id, date |-> date, value_usd |-> value_usd,
                  value_eur |-> DecZero])]
        ELSE IF tx_type \in {"Exchange", "Exchange Collateral"}
        THEN ClassifyExchange(res, row)
        ELSE IF tx_type \in {"Manual Sell Order", "Withdrawal"} /\ _is_crypto(input_currency)
        THEN [res EXCEPT !.disposal_events = Append(@, DisposalEvent(row))]
        ELSE IF tx_type = "Top up Crypto" /\ _is_crypto(input_currency)
        THEN [res EXCEPT !.exchange_buy_events = Append(@,
                 [tx_id |-> tx_id, date |-> date, asset |-> input_currency,
                  amount |-> input_amount, spent_amount |-> input_amount,
                  spent_currency |-> input_currency, value_usd |-> value_usd,
                  value_eur |-> DecZero])]
        ELSE IF tx_type = "Nexo Card Purchase" /\ input_currency \in _USD_CURRENCIES
                /\ output_currency = "EUR"
        THEN [res EXCEPT
                 !.fx_observations = Append(@,
                     [date |-> date, eur_amount |-> Dec(row.OutputAmount),
                      usd_amount |-> DecAbs(input_amount)]),
                 !.card_purchase_events = Append(@,
                     [tx_id |-> tx_id, date |-> date, eur_amount |-> Dec(row.OutputAmount),
                      usd_amount |-> DecAbs(input_amount), merchant |-> merchant])]
        ELSE IF tx_type = "Exchange Liquidation" /\ input_currency \in {"EUR", "EURX"}
                /\ output_currency \in _USD_CURRENCIES
        THEN [res EXCEPT !.repayment_events = Append(@,
                 [tx_id |-> tx_id, date |-> date, eur_amount |-> DecAbs(input_amount),
                  usd_amount |-> Dec(row.OutputAmount)])]
        ELSE res

\* list.sort(key=lambda event: event.date): a stable sort, equal dates keep their order.
RECURSIVE InsertByDate(_, _)
InsertByDate(sorted, ev) ==
    IF sorted = <<>> THEN <<ev>>
    ELSE IF sorted[Len(sorted)].date <= ev.date THEN Append(sorted, ev)
    ELSE Append(InsertByDate(SubSeq(sorted, 1, Len(sorted) - 1), ev), sorted[Len(sorted)])

RECURSIVE SortByDate(_)
SortByDate(events) ==
    IF events = <<>> THEN <<>>
    ELSE InsertByDate(SortByDate(SubSeq(events, 1, Len(events) - 1)), events[Len(events)])

SortAll(res) ==
    [cashback_events |-> SortByDate(res.cashback_events),
     cashback_reversal_events |-> SortByDate(res.cashback_reversal_events),
     interest_events |-> SortByDate(res.interest_events),
     exchange_buy_events |-> SortByDate(res.exchange_buy_events),
     fx_observations |-> SortByDate(res.fx_observations),
     disposal_events |-> SortByDate(res.disposal_events),
     card_purchase_events |-> SortByDate(res.card_purchase_events),
     repayment_events |-> SortByDate(res.repayment_events)]

RECURSIVE ClassifyRows(_, _)
ClassifyRows(res, rows) ==
    IF rows = <<>> THEN res
    ELSE ClassifyRows(ClassifyRow(res, Head(rows)), Tail(rows))

parse_csv_from_string(content) == SortAll(ClassifyRows(EmptyResult, content))

Extend(merged, res) ==
    [cashback_events |-> merged.cashback_events \o res.cashback_events,
     cashback_reversal_events |->
         merged.cashback_reversal_events \o res.cashback_reversal_events,
     interest_events |-> merged.interest_events \o res.interest_events,
     exchange_buy_events |-> merged.exchange_buy_events \o res.exchange_buy_events,
     fx_observations |-> merged.fx_observations \o res.fx_observations,
     disposal_events |-> merged.disposal_events \o res.disposal_events,
     card_purchase_events |-> merged.card_purchase_events \o res.card_purchase_events,
     repayment_events |-> merged.repayment_events \o res.repayment_events]

RECURSIVE MergeFiles(_, _)
MergeFiles(merged, csv_contents) ==
    IF csv_contents = <<>> THEN merged
    ELSE MergeFiles(Extend(merged, parse_csv_from_string(Head(csv_contents))),
                    Tail(csv_contents))

\* A merge that leaves the lists as the loop over the files built them.
MergeUnsorted(csv_contents) == MergeFiles(EmptyResult, csv_contents)

parse_csvs_from_strings(csv_contents) == SortAll(MergeFiles(EmptyResult, csv_contents))

(***************************************************************************)
(* parser.py: the classifier the command line reads files with.  A path    *)
(* stands for the rows csv.DictReader yields from the file it names.       *)
(***************************************************************************)
parser_INTEREST_TYPES == {"Interest", "Fixed Term Interest", "Exchange Cashback"}

parser_USD_CURRENCIES == {"USD", "xUSD", "USDX"}

parser_FIAT_CURRENCIES == {"EUR", "EURX", "USD", "xUSD", "USDX"}

parser_is_crypto(currency) == currency \notin parser_FIAT_CURRENCIES

\* Decimal(val.lstrip("$"))
parser_parse_usd(val) == Dec(val[Len(val)])

\* The Details field without its "approved / " prefix.
parser_extract_merchant(details) == details[Len(details)]

\* A row loop that passes over the Top up Crypto rows.
parse_csv_row_without_top_up(res, row) ==
    IF row.Type = "Top up Crypto" THEN res ELSE ClassifyRow(res, row)

\* The body of the row loop of parse_csv (lines 109-247): the events one row appends.
parse_csv_row(res, row) ==
    LET tx_type         == row.Type
        tx_id           == row.Transaction
        date            == row.DateTime
        input_currency  == row.InputCurrency
        input_amount    == Dec(row.InputAmount)
        output_currency == row.OutputCurrency
        value_usd       == parser_parse_usd(row.USDEquivalent)
        merchant        == parser_extract_merchant(row.Details)
        sold            ==
            [tx_id |-> tx_id, date |-> date, asset |-> input_currency,
             quantity |-> DecAbs(input_amount), proceeds_usd |-> value_usd,
             proceeds_eur |-> DecZero, fee_eur |-> DecZero, description |-> merchant]
    IN  IF tx_type = "Cashback" /\ input_currency = "NEXO"
        THEN [res EXCEPT !.cashback_events = Append(@,
                 [tx_id |-> tx_id, date |-> date, amount_nexo |-> input_amount,
                  value_usd |-> value_usd, value_eur |-> DecZero, merchant |-> merchant])]
        ELSE IF tx_type \in parser_INTEREST_TYPES /\ DecLT(DecZero, input_amount)
                /\ parser_is_crypto(input_currency)
        THEN [res EXCEPT !.interest_events = Append(@,
                 [tx_id |-> tx_id, date |-> date, asset |-> input_currency,
                  amount |-> input_amount, value_usd |-> value_usd,
                  value_eur |-> DecZero, source |-> tx_type])]
        ELSE IF tx_type = "Nexo Card Cashback Reversal"
        THEN [res EXCEPT !.cashback_reversal_events = Append(@,
                 [tx_id |-> tx_id, date |-> date, value_usd |-> value_usd,
                  value_eur |-> DecZero])]
        ELSE IF tx_type \in {"Exchange", "Exchange Collateral"}
        THEN LET after_sale ==
                     IF parser_is_crypto(input_currency)
                     THEN [res EXCEPT !.disposal_events = Append(@, sold)]
                     ELSE res
             IN  IF parser_is_crypto(output_currency)
                 THEN [after_sale EXCEPT !.exchange_buy_events = Append(@,
                          [tx_id |-> tx_id, date |-> date, asset |-> output_currency,
                           amount |-> Dec(row.OutputAmount),
                           spent_amount |-> DecAbs(input_amount),
                           spent_currency |-> input_currency, value_usd |-> value_usd,
                           value_eur |-> DecZero])]
                 ELSE after_sale
        ELSE IF tx_type \in {"Manual Sell Order", "Withdrawal"}
                /\ parser_is_crypto(input_currency)
        THEN [res EXCEPT !.disposal_events = Append(@, sold)]
        ELSE IF tx_type = "Top up Crypto" /\ parser_is_crypto(input_currency)
        THEN [res EXCEPT !.exchange_buy_events = Append(@,
                 [tx_id |-> tx_id, date |-> date, asset |-> input_currency,
                  amount |-> input_amount, spent_amount |-> input_amount,
                  spent_currency |-> input_currency, value_usd |-> value_usd,
                  value_eur |-> DecZero])]
        ELSE IF tx_type = "Nexo Card Purchase" /\ input_currency \in parser_USD_CURRENCIES
                /\ output_currency = "EUR"
        THEN LET usd_amount == DecAbs(input_amount)
                 eur_amount == Dec(row.OutputAmount)
             IN  [res EXCEPT
                     !.fx_observations = Append(@,
                         [date |-> date, eur_amount |-> eur_amount,
                          usd_amount |-> usd_amount]),
                     !.card_purchase_events = Append(@,
                         [tx_id |-> tx_id, date |-> date, eur_amount |-> eur_amount,
                          usd_amount |-> usd_amount, merchant |-> merchant])]
        ELSE IF tx_type = "Exchange Liquidation" /\ input_currency \in {"EUR", "EURX"}
                /\ output_currency \in parser_USD_CURRENCIES
        THEN [res EXCEPT !.repayment_events = Append(@,
                 [tx_id |-> tx_id, date |-> date, eur_amount |-> DecAbs(input_amount),
                  usd_amount |-> Dec(row.OutputAmount)])]
        ELSE res

RECURSIVE parse_csv_rows(_, _)
\* for row in reader
parse_csv_rows(res, reader) ==
    IF reader = <<>> THEN res
    ELSE parse_csv_rows(parse_csv_row(res, Head(reader)), Tail(reader))

\* parse_csv: the row loop, then the eight sorts (lines 249-256).
parse_csv(path) == SortAll(parse_csv_rows(EmptyResult, path))

RECURSIVE parse_csvs_merged(_, _)
\* parse_csvs lines 72-81: for path in paths, the eight extends.
parse_csvs_merged(merged, paths) ==
    IF paths = <<>> THEN merged
    ELSE parse_csvs_merged(Extend(merged, parse_csv(Head(paths))), Tail(paths))

\* parse_csvs: the merge, then the eight sorts (lines 83-90).
parse_csvs(paths) == SortAll(parse_csvs_merged(EmptyResult, paths))

(***************************************************************************)
(* fx.py: the daily USD/EUR rate table.                                    *)
(***************************************************************************)
RECURSIVE DayTotals(_, _)
\* daily_totals[day] after the loop over the observations: <<eur, usd>>.
DayTotals(observations, day) ==
    IF observations = <<>> THEN <<DecZero, DecZero>>
    ELSE LET n    == Len(observations)
             obs  == observations[n]
             prev == DayTotals(SubSeq(observations, 1, n - 1), day)
         IN  IF DateOf(obs.date) = day
             THEN <<DecAdd(prev[1], obs.eur_amount), DecAdd(prev[2], obs.usd_amount)>>
             ELSE prev

ObservedDays(observations) == {DateOf(observations[i].date) : i \in DOMAIN observations}

\* eur / usd raises (DivisionByZero, InvalidOperation) for a day whose USD total is 0.
RatesDefined(observations) ==
    \A day \in ObservedDays(observations) : DayTotals(observations, day)[2] # DecZero

\* Daily rates that are the mean of the rates of the day's observations.
build_mean_rates(observations) ==
    [day \in ObservedDays(observations) |->
        LET OnDay(obs) == DateOf(obs.date) = day
            seen       == SelectSeq(observations, OnDay)
            RECURSIVE Total(_)
            Total(n) ==
                IF n = 0 THEN DecZero
                ELSE DecAdd(Total(n - 1), DecDiv(seen[n].eur_amount, seen[n].usd_amount))
        IN  DecDiv(Total(Len(seen)), Dec(Len(seen)))]

build_daily_rates(observations) ==
    [day \in ObservedDays(observations) |->
        DecDiv(DayTotals(observations, day)[1], DayTotals(observations, day)[2])]

RECURSIVE SortedDays(_)
SortedDays(days) ==
    IF days = {} THEN <<>>
    ELSE LET first == CHOOSE d \in days : \A o \in days : d <= o
         IN  <<first>> \o SortedDays(days \ {first})

FxRateTable(observations) ==
    [_rates |-> build_daily_rates(observations),
     _sorted_dates |-> SortedDays(ObservedDays(observations))]

\* bisect_left(a, x): the number of entries of the sorted list a that are < x.
bisect_left(a, x) == Cardinality({i \in DOMAIN a : a[i] < x})

\* A nearest-date lookup that goes to the later day when the two are equally near.
_nearest_rate_later(fx, day) ==
    LET idx    == bisect_left(fx._sorted_dates, day)
        before == fx._sorted_dates[idx]
        after  == fx._sorted_dates[idx + 1]
    IN  IF idx = 0 THEN fx._rates[fx._sorted_dates[1]]
        ELSE IF idx >= Len(fx._sorted_dates)
        THEN fx._rates[fx._sorted_dates[Len(fx._sorted_dates)]]
        ELSE IF (day - before) < (after - day) THEN fx._rates[before]
        ELSE fx._rates[after]

_nearest_rate(fx, day) ==
    LET idx    == bisect_left(fx._sorted_dates, day)
        before == fx._sorted_dates[idx]
        after  == fx._sorted_dates[idx + 1]
    IN  IF idx = 0 THEN fx._rates[fx._sorted_dates[1]]
        ELSE IF idx >= Len(fx._sorted_dates)
        THEN fx._rates[fx._sorted_dates[Len(fx._sorted_dates)]]
        ELSE IF (day - before) <= (after - day) THEN fx._rates[before]
        ELSE fx._rates[after]

\* rate_for_date raises ValueError when the table has no observation at all.
RateDefined(fx) == fx._sorted_dates # <<>>

rate_for_date(fx, dt) ==
    IF DateOf(dt) \in DOMAIN fx._rates THEN fx._rates[DateOf(dt)]
    ELSE _nearest_rate(fx, DateOf(dt))

convert_usd_to_eur(fx, usd_amount, dt) == DecMul(usd_amount, rate_for_date(fx, dt))

(***************************************************************************)
(* calculator.py: the lot ledger.  The Lot objects live in the sequence    *)
(* lots (in the order build_lot_queue creates them); a deque holds the     *)
(* indices of its lots, front first.                                       *)
(***************************************************************************)
Lot(asset, ev, quantity, source) ==
    [asset |-> asset, acquired_date |-> ev.date, quantity |-> quantity,
     cost_eur |-> ev.value_eur, remaining |-> quantity, tx_id |-> ev.tx_id,
     source |-> source]

\* The Lot objects of the three loops of build_lot_queue, in creation order.
NewLots(cashback_events, interest_events, exchange_buy_events) ==
    [i \in DOMAIN cashback_events |->
        Lot("NEXO", cashback_events[i], cashback_events[i].amount_nexo, "cashback")]
    \o [i \in DOMAIN interest_events |->
        Lot(interest_events[i].asset, interest_events[i], interest_events[i].amount,
            "interest")]
    \o [i \in DOMAIN exchange_buy_events |->
        Lot(exchange_buy_events[i].asset, exchange_buy_events[i],
            exchange_buy_events[i].amount, "exchange_buy")]

\* A sort that leaves the lots in creation order.
InsertLotAtEnd(heap, sorted, id) == Append(sorted, id)

RECURSIVE InsertLot(_, _, _)
InsertLot(heap, sorted, id) ==
    IF sorted = <<>> THEN <<id>>
    ELSE IF heap[sorted[Len(sorted)]].acquired_date <= heap[id].acquired_date
    THEN Append(sorted, id)
    ELSE Append(InsertLot(heap, SubSeq(sorted, 1, Len(sorted) - 1), id),
                sorted[Len(sorted)])

RECURSIVE SortLots(_, _)
\* No sort at all.
SortLotsUnsorted(heap, ids) == ids

\* asset_lots.sort(key=lambda lot: lot.acquired_date)
SortLots(heap, ids) ==
    IF ids = <<>> THEN <<>>
    ELSE InsertLot(heap, SortLots(heap, SubSeq(ids, 1, Len(ids) - 1)), ids[Len(ids)])

\* The lots of one asset in the order they were appended to lots_by_asset[asset].
AssetLots(heap, asset) ==
    LET OfAsset(id) == heap[id].asset = asset
    IN  SelectSeq([i \in DOMAIN heap |-> i], OfAsset)

build_lot_queue(heap) ==
    [asset \in {heap[i].asset : i \in DOMAIN heap} |-> SortLots(heap, AssetLots(heap, asset))]

\* lots_by_asset.get(disposal.asset, deque())
QueueOf(queues, asset) == IF asset \in DOMAIN queues THEN queues[asset] ELSE <<>>

\* used = min(lot.remaining, qty_needed)
Used(lot, qty_needed) == DecMin(lot.remaining, qty_needed)

\* The whole cost of the lot, whatever part of it is used.
CostWholeLot(lot, used) == lot.cost_eur

\* cost_from_lot = lot.cost_eur * (used / lot.quantity)
CostFromLot(lot, used) == DecMul(lot.cost_eur, DecDiv(used, lot.quantity))

\* (lot.tx_id, used, cost_from_lot)
ConsumedEntry(lot, used, cost_from_lot) == <<lot.tx_id, used, cost_from_lot>>

\* The lot is emptied, whatever part of it is used.
ConsumeWholeLot(lot, used) == [lot EXCEPT !.remaining = DecZero]

\* lot.remaining -= used
Consume(lot, used) == [lot EXCEPT !.remaining = DecSub(@, used)]

\* The lot at the front leaves the queue, spent or not.
PopAlways(queue, lot) == Tail(queue)

\* if lot.remaining <= 0: lots.popleft()
PopIfSpent(queue, lot) == IF DecLE(lot.remaining, DecZero) THEN Tail(queue) ELSE queue

\* gain = disposal.proceeds_eur - disposal.fee_eur - total_cost
Gain(disposal, total_cost) ==
    DecSub(DecSub(disposal.proceeds_eur, disposal.fee_eur), total_cost)

(***************************************************************************)
(* calculator.py: per-year aggregation.                                    *)
(***************************************************************************)
RECURSIVE SumDec(_)
\* sum(values, Decimal("0")): left to right, each addition rounded by the context.
SumDec(values) ==
    IF values = <<>> THEN DecZero
    ELSE DecAdd(SumDec(SubSeq(values, 1, Len(values) - 1)), values[Len(values)])

\* A filter that lets the events of every year through.
AnyYear(events, year) == events

InYear(events, year) ==
    LET Test(ev) == YearOf(ev.date) = year
    IN  SelectSeq(events, Test)

\* The positions, in disposal_events, of the disposals of the year, in list order.
YearDisposals(disposal_events, year) ==
    LET Test(i) == YearOf(disposal_events[i].date) = year
    IN  SelectSeq([i \in DOMAIN disposal_events |-> i], Test)

\* A dict asset -> total of amount over the events, keyed by the assets that occur.
AmountByAsset(events) ==
    [asset \in {events[i].asset : i \in DOMAIN events} |->
        LET Test(ev) == ev.asset = asset
            mine     == SelectSeq(events, Test)
        IN  SumDec([i \in DOMAIN mine |-> mine[i].amount])]

\* Lines 123-155 of compute_annual_summary: the totals that do not touch the ledger.
YearTotals(res, year) ==
    LET year_cashback      == InYear(res.cashback_events, year)
        year_reversals     == InYear(res.cashback_reversal_events, year)
        year_interest      == InYear(res.interest_events, year)
        year_exchange_buys == InYear(res.exchange_buy_events, year)
    IN  [year |-> year,
         total_cashback_events |-> Len(year_cashback),
         total_cashback_nexo |->
             SumDec([i \in DOMAIN year_cashback |-> year_cashback[i].amount_nexo]),
         total_cashback_eur |->
             SumDec([i \in DOMAIN year_cashback |-> year_cashback[i].value_eur]),
         total_cashback_reversal_events |-> Len(year_reversals),
         total_cashback_reversal_eur |->
             SumDec([i \in DOMAIN year_reversals |-> year_reversals[i].value_eur]),
         total_interest_events |-> Len(year_interest),
         total_interest_by_asset |-> AmountByAsset(year_interest),
         total_interest_eur |->
             SumDec([i \in DOMAIN year_interest |-> year_interest[i].value_eur]),
         total_exchange_buy_events |-> Len(year_exchange_buys),
         total_exchange_buy_by_asset |-> AmountByAsset(year_exchange_buys),
         total_exchange_buy_eur |->
             SumDec([i \in DOMAIN year_exchange_buys |-> year_exchange_buys[i].value_eur])]

\* Lines 168-176: the queued lots with remaining > 0, over every asset of the ledger.
RemainingIds(heap, queues, asset) ==
    LET Test(id) == DecLT(DecZero, heap[id].remaining)
    IN  SelectSeq(queues[asset], Test)

RemainingLots(heap, queues) ==
    Cardinality({id \in DOMAIN heap :
        \E asset \in DOMAIN queues :
            \E k \in DOMAIN queues[asset] :
                queues[asset][k] = id /\ DecLT(DecZero, heap[id].remaining)})

RemainingByAsset(heap, queues) ==
    [asset \in {a \in DOMAIN queues : RemainingIds(heap, queues, a) # <<>>} |->
        LET ids == RemainingIds(heap, queues, asset)
        IN  SumDec([k \in DOMAIN ids |-> heap[ids[k]].remaining])]

\* Lines 159-166: totals over the year's DisposalResults.
DisposalTotals(results) ==
    [total_disposal_proceeds_eur |->
         SumDec([i \in DOMAIN results |->
             DecSub(results[i].disposal.proceeds_eur, results[i].disposal.fee_eur)]),
     total_disposal_cost_basis_eur |->
         SumDec([i \in DOMAIN results |-> results[i].cost_basis_eur]),
     total_disposal_gain_eur |-> SumDec([i \in DOMAIN results |-> results[i].gain_eur])]

_TAX_RATE == <<3, -1>>

\* A card analysis whose FX spread leaves the USD mismatch out.
card_analysis_unadjusted(year, card_purchases, repayments, net_cashback_eur) ==
    LET year_purchases  == InYear(card_purchases, year)
        year_repayments == InYear(repayments, year)
        total_purchase_eur ==
            SumDec([i \in DOMAIN year_purchases |-> year_purchases[i].eur_amount])
        total_purchase_usd ==
            SumDec([i \in DOMAIN year_purchases |-> year_purchases[i].usd_amount])
        total_repayment_eur ==
            SumDec([i \in DOMAIN year_repayments |-> year_repayments[i].eur_amount])
        total_repayment_usd ==
            SumDec([i \in DOMAIN year_repayments |-> year_repayments[i].usd_amount])
        fx_spread_eur ==
            IF DecLT(DecZero, total_purchase_usd)
            THEN DecSub(total_repayment_eur, total_purchase_eur)
            ELSE DecZero
        cashback_tax_eur == DecMul(net_cashback_eur, _TAX_RATE)
        net_benefit_eur  ==
            DecSub(DecSub(net_cashback_eur, cashback_tax_eur), fx_spread_eur)
        effective_rate_pct ==
            IF DecLT(DecZero, total_purchase_eur)
            THEN DecMul(DecDiv(net_benefit_eur, total_purchase_eur), Dec(100))
            ELSE DecZero
    IN  [year |-> year, total_purchase_eur |-> total_purchase_eur,
         total_purchase_usd |-> total_purchase_usd,
         total_repayment_eur |-> total_repayment_eur,
         total_repayment_usd |-> total_repayment_usd, fx_spread_eur |-> fx_spread_eur,
         cashback_eur |-> net_cashback_eur, cashback_tax_eur |-> cashback_tax_eur,
         net_benefit_eur |-> net_benefit_eur, effective_rate_pct |-> effective_rate_pct]

\* A card analysis whose net benefit leaves the cashback tax out.
card_analysis_untaxed(year, card_purchases, repayments, net_cashback_eur) ==
    LET year_purchases  == InYear(card_purchases, year)
        year_repayments == InYear(repayments, year)
        total_purchase_eur ==
            SumDec([i \in DOMAIN year_purchases |-> year_purchases[i].eur_amount])
        total_purchase_usd ==
            SumDec([i \in DOMAIN year_purchases |-> year_purchases[i].usd_amount])
        total_repayment_eur ==
            SumDec([i \in DOMAIN year_repayments |-> year_repayments[i].eur_amount])
        total_repayment_usd ==
            SumDec([i \in DOMAIN year_repayments |-> year_repayments[i].usd_amount])
        purchase_rate == DecDiv(total_purchase_eur, total_purchase_usd)
        usd_mismatch  == DecSub(total_purchase_usd, total_repayment_usd)
        mismatch_eur  == DecMul(usd_mismatch, purchase_rate)
        fx_spread_eur ==
            IF DecLT(DecZero, total_purchase_usd)
            THEN DecSub(total_repayment_eur, DecSub(total_purchase_eur, mismatch_eur))
            ELSE DecZero
        cashback_tax_eur == DecMul(net_cashback_eur, _TAX_RATE)
        net_benefit_eur  == DecSub(net_cashback_eur, fx_spread_eur)
        effective_rate_pct ==
            IF DecLT(DecZero, total_purchase_eur)
            THEN DecMul(DecDiv(net_benefit_eur, total_purchase_eur), Dec(100))
            ELSE DecZero
    IN  [year |-> year, total_purchase_eur |-> total_purchase_eur,
         total_purchase_usd |-> total_purchase_usd,
         total_repayment_eur |-> total_repayment_eur,
         total_repayment_usd |-> total_repayment_usd, fx_spread_eur |-> fx_spread_eur,
         cashback_eur |-> net_cashback_eur, cashback_tax_eur |-> cashback_tax_eur,
         net_benefit_eur |-> net_benefit_eur, effective_rate_pct |-> effective_rate_pct]

compute_card_analysis(year, card_purchases, repayments, net_cashback_eur) ==
    LET year_purchases  == InYear(card_purchases, year)
        year_repayments == InYear(repayments, year)
        total_purchase_eur ==
            SumDec([i \in DOMAIN year_purchases |-> year_purchases[i].eur_amount])
        total_purchase_usd ==
            SumDec([i \in DOMAIN year_purchases |-> year_purchases[i].usd_amount])
        total_repayment_eur ==
            SumDec([i \in DOMAIN year_repayments |-> year_repayments[i].eur_amount])
        total_repayment_usd ==
            SumDec([i \in DOMAIN year_repayments |-> year_repayments[i].usd_amount])
        purchase_rate == DecDiv(total_purchase_eur, total_purchase_usd)
        usd_mismatch  == DecSub(total_purchase_usd, total_repayment_usd)
        mismatch_eur  == DecMul(usd_mismatch, purchase_rate)
        fx_spread_eur ==
            IF DecLT(DecZero, total_purchase_usd)
            THEN DecSub(total_repayment_eur, DecSub(total_purchase_eur, mismatch_eur))
            ELSE DecZero
        cashback_tax_eur == DecMul(net_cashback_eur, _TAX_RATE)
        net_benefit_eur  ==
            DecSub(DecSub(net_cashback_eur, cashback_tax_eur), fx_spread_eur)
        effective_rate_pct ==
            IF DecLT(DecZero, total_purchase_eur)
            THEN DecMul(DecDiv(net_benefit_eur, total_purchase_eur), Dec(100))
            ELSE DecZero
    IN  [year |-> year, total_purchase_eur |-> total_purchase_eur,
         total_purchase_usd |-> total_purchase_usd,
         total_repayment_eur |-> total_repayment_eur,
         total_repayment_usd |-> total_repayment_usd, fx_spread_eur |-> fx_spread_eur,
         cashback_eur |-> net_cashback_eur, cashback_tax_eur |-> cashback_tax_eur,
         net_benefit_eur |-> net_benefit_eur, effective_rate_pct |-> effective_rate_pct]

(***************************************************************************)
(* Inputs.  An export holds rows with distinct transaction ids; a run gets *)
(* up to MaxRows of the rows below, in the order listed or in the reverse  *)
(* order, in one file or cut into two at any place, and up to MaxYears     *)
(* requested years, in any order, repeats allowed.                         *)
(***************************************************************************)
MaxRows == 5

MaxYears == 2

MaxCalls == 2

RowUniverse ==
    << Row("P1", "Nexo Card Purchase", "USDX", -3, "EUR", 2, 3, At(2024, 0, 0)),
       Row("D1", "Exchange", "NEXO", -4, "EUR", 3, 3, At(2025, 1, 1)),
       Row("C1", "Cashback", "NEXO", 3, "NEXO", 3, 2, At(2024, 1, 0)),
       Row("B1", "Exchange", "EURX", -3, "NEXO", 2, 3, At(2025, 0, 0)),
       Row("I1", "Interest", "NEXO", 2, "NEXO", 2, 1, At(2024, 0, 1)),
       Row("M1", "Manual Sell Order", "BTC", -1, "EURX", 2, 2, At(2025, 1, 1)),
       Row("T1", "Top up Crypto", "BTC", -1, "BTC", 0, 1, At(2024, 1, 1)),
       Row("Z1", "Cashback", "NEXO", 0, "NEXO", 0, 1, At(2024, 0, 0)),
       Row("W1", "Withdrawal", "NEXO", -1, "NEXO", 1, 1, At(2024, 2, 0)),
       Row("P2", "Nexo Card Purchase", "xUSD", -2, "EUR", 1, 2, At(2025, 1, 0)),
       Row("S1", "Exchange", "NEXO", -1, "BTC", 1, 2, At(2025, 2, 0)),
       Row("R1", "Nexo Card Cashback Reversal", "NEXO", -1, "NEXO", 0, 1, At(2024, 1, 0)) >>

\* The rows of RowUniverse at the places in picked, in the order listed.
Pick(picked) ==
    LET Test(i) == i \in picked
        places  == SelectSeq([i \in DOMAIN RowUniverse |-> i], Test)
    IN  [k \in DOMAIN places |-> RowUniverse[places[k]]]

Reverse(rows) == [k \in DOMAIN rows |-> rows[Len(rows) + 1 - k]]

RowLists ==
    UNION { {Pick(picked), Reverse(Pick(picked))} :
              picked \in {p \in SUBSET DOMAIN RowUniverse : Cardinality(p) <= MaxRows} }

\* csv_contents: the rows as one file, or cut into two.
Inputs ==
    { <<rows>> : rows \in RowLists }
    \cup { <<SubSeq(p[1], 1, p[2]), SubSeq(p[1], p[2] + 1, Len(p[1]))>> :
             p \in {q \in RowLists \X (1..MaxRows) : q[2] < Len(q[1])} }

YearLists == UNION { [1..n -> Years] : n \in 0..MaxYears }

RECURSIVE InsertInt(_, _)
InsertInt(sorted, n) ==
    IF sorted = <<>> THEN <<n>>
    ELSE IF sorted[Len(sorted)] <= n THEN Append(sorted, n)
    ELSE Append(InsertInt(SubSeq(sorted, 1, Len(sorted) - 1), n), sorted[Len(sorted)])

\* The years in the order requested.
unsorted(years) == years

RECURSIVE sorted(_)
\* sorted(years)
sorted(years) ==
    IF years = <<>> THEN <<>>
    ELSE InsertInt(sorted(SubSeq(years, 1, Len(years) - 1)), years[Len(years)])

(***************************************************************************)
(* State of one run.                                                       *)
(***************************************************************************)
VARIABLES
    csv_input,        \* the files handed to the parser, each a header and its rows
    earlier,          \* what the earlier runs of the process returned or raised
    query,            \* the last rate_for_date call: its argument and what it returned
    pc,               \* where the run is
    result,           \* the merged ParseResult, its events enriched in place
    eur_writes,       \* per event list, how often each event's EUR field was assigned
    fx,               \* the FxRateTable
    lots,             \* the Lot objects, by index
    lots_by_asset,    \* asset -> deque of lot indices
    builds,           \* the number of calls of build_lot_queue
    years,            \* the years the caller asked for
    todo,             \* the years of sorted(years) not yet started
    summary,          \* compute_annual_summary: the totals of the year at hand
    pending,          \* the year's disposals not yet matched (positions in disposal_events)
    disposal_results, \* the DisposalResults of the year at hand
    pd,               \* process_disposal: its locals
    calls,            \* the disposals handed to process_disposal, in call order
    outputs,          \* per year finished: the AnnualSummary and the card analysis
    err               \* the exception that ended the run

vars ==
    <<csv_input, earlier, query, pc, result, eur_writes, fx, lots, lots_by_asset, builds, years, todo, summary, pending,
      disposal_results, pd, calls, outputs, err>>

NoQuery == [dt |-> -1, rate |-> DecZero]

NoError == [kind |-> "", asset |-> "", shortfall |-> DecZero]

NoDisposal == [disposal |-> 0, qty_needed |-> DecZero, total_cost |-> DecZero,
               lots_consumed |-> <<>>]

Zeros(events) == [i \in DOMAIN events |-> 0]

\* The state of a run before its first step, whatever it was handed.
Fresh ==
    /\ pc = "start"
    /\ query = NoQuery
    /\ result = EmptyResult
    /\ eur_writes = [cashback |-> <<>>, reversal |-> <<>>, interest |-> <<>>,
                     exchange_buy |-> <<>>, disposal |-> <<>>]
    /\ fx = [_rates |-> <<>>, _sorted_dates |-> <<>>]
    /\ lots = <<>>
    /\ lots_by_asset = <<>>
    /\ builds = 0
    /\ years = <<>>
    /\ todo = <<>>
    /\ summary = [year |-> 0]
    /\ pending = <<>>
    /\ disposal_results = <<>>
    /\ pd = NoDisposal
    /\ calls = <<>>
    /\ outputs = <<>>
    /\ err = NoError

Init == csv_input = <<>> /\ earlier = <<>> /\ Fresh

Raise(kind, asset, shortfall) ==
    /\ pc' = "failed"
    /\ err' = [kind |-> kind, asset |-> asset, shortfall |-> shortfall]

\* api.run line 65: result = parse_csvs_from_strings(csv_contents)
ParseInput ==
    /\ pc = "start"
    /\ \E csv_contents \in Inputs :
          /\ result' = parse_csvs_from_strings(csv_contents)
          /\ eur_writes' = [cashback |-> Zeros(result'.cashback_events),
                            reversal |-> Zeros(result'.cashback_reversal_events),
                            interest |-> Zeros(result'.interest_events),
                            exchange_buy |-> Zeros(result'.exchange_buy_events),
                            disposal |-> Zeros(result'.disposal_events)]
    /\ pc' = "fx"
    /\ UNCHANGED <<csv_input, earlier, query, years, fx, lots, lots_by_asset, builds, todo, summary, pending,
                   disposal_results, pd, calls, outputs, err>>

\* api.run line 81: fx = FxRateTable(result.fx_observations)
BuildFx ==
    /\ pc = "fx"
    /\ IF RatesDefined(result.fx_observations)
       THEN /\ fx' = FxRateTable(result.fx_observations)
            /\ pc' = "enrich_cashback"
            /\ err' = err
       ELSE /\ Raise("DivisionByZero", "", DecZero)
            /\ fx' = fx
    /\ UNCHANGED <<csv_input, earlier, query, years, result, eur_writes, lots, lots_by_asset, builds, todo, summary, pending,
                   disposal_results, pd, calls, outputs>>

\* ev.value_eur = fx.convert_usd_to_eur(ev.value_usd, ev.date), for every event of a list
EnrichValue(events) ==
    [i \in DOMAIN events |->
        [events[i] EXCEPT !.value_eur = convert_usd_to_eur(fx, events[i].value_usd,
                                                           events[i].date)]]

\* ev.proceeds_eur = fx.convert_usd_to_eur(ev.proceeds_usd, ev.date)
EnrichProceeds(events) ==
    [i \in DOMAIN events |->
        [events[i] EXCEPT !.proceeds_eur = convert_usd_to_eur(fx, events[i].proceeds_usd,
                                                              events[i].date)]]

Written(counts) == [i \in DOMAIN counts |-> counts[i] + 1]

\* One of the five enrichment loops (api.run lines 84-97).  The first conversion of a
\* table without observations raises ValueError.
EnrichLoop(here, next, events, enriched, list) ==
    /\ pc = here
    /\ IF events # <<>> /\ ~RateDefined(fx)
       THEN /\ Raise("ValueError", "", DecZero)
            /\ UNCHANGED <<result, eur_writes>>
       ELSE /\ result' = enriched
            /\ eur_writes' = [eur_writes EXCEPT ![list] = Written(@)]
            /\ pc' = next
            /\ err' = err
    /\ UNCHANGED <<csv_input, earlier, query, years, fx, lots, lots_by_asset, builds, todo, summary, pending,
                   disposal_results, pd, calls, outputs>>

EnrichCashback ==
    EnrichLoop("enrich_cashback", "enrich_reversal", result.cashback_events,
               [result EXCEPT !.cashback_events = EnrichValue(@)], "cashback")

EnrichReversal ==
    EnrichLoop("enrich_reversal", "enrich_interest", result.cashback_reversal_events,
               [result EXCEPT !.cashback_reversal_events = EnrichValue(@)], "reversal")

EnrichInterest ==
    EnrichLoop("enrich_interest", "enrich_exchange_buy", result.interest_events,
               [result EXCEPT !.interest_events = EnrichValue(@)], "interest")

EnrichExchangeBuy ==
    EnrichLoop("enrich_exchange_buy", "enrich_disposal", result.exchange_buy_events,
               [result EXCEPT !.exchange_buy_events = EnrichValue(@)], "exchange_buy")

\* The disposals are left without their EUR proceeds.
EnrichDisposalSkipped ==
    /\ pc = "enrich_disposal"
    /\ pc' = "build"
    /\ UNCHANGED <<csv_input, earlier, query, years, result, eur_writes, fx, lots, lots_by_asset, builds, todo, summary,
                   pending, disposal_results, pd, calls, outputs, err>>

EnrichDisposal ==
    EnrichLoop("enrich_disposal", "build", result.disposal_events,
               [result EXCEPT !.disposal_events = EnrichProceeds(@)], "disposal")

\* The events build_lot_queue is given (api.run lines 100-102).
LedgerLots(res) ==
    NewLots(res.cashback_events, res.interest_events, res.exchange_buy_events)

\* The ledger of an earlier call is taken over when there is one.
BuildLotsCached ==
    /\ pc = "build"
    /\ lots' = IF lots = <<>> THEN LedgerLots(result) ELSE lots
    /\ lots_by_asset' = IF lots = <<>> THEN build_lot_queue(lots') ELSE lots_by_asset
    /\ builds' = builds + 1
    /\ pc' = "built"
    /\ UNCHANGED <<csv_input, earlier, query, years, result, eur_writes, fx, todo, summary, pending, disposal_results, pd,
                   calls, outputs, err>>

\* api.run lines 100-102: lots_by_asset = build_lot_queue(...)
BuildLots ==
    /\ pc = "build"
    /\ lots' = LedgerLots(result)
    /\ lots_by_asset' = build_lot_queue(lots')
    /\ builds' = builds + 1
    /\ pc' = "built"
    /\ UNCHANGED <<csv_input, earlier, query, years, result, eur_writes, fx, todo, summary, pending, disposal_results, pd,
                   calls, outputs, err>>

\* compute_annual_summary lines 123-155, up to the first process_disposal.
BeginSummary(year) ==
    /\ summary' = YearTotals(result, year)
    /\ pending' = YearDisposals(result.disposal_events, year)
    /\ disposal_results' = <<>>
    /\ pc' = "matching"

\* api.run line 107: for year in sorted(years)
SortYears ==
    /\ pc = "built"
    /\ \E requested \in YearLists : years' = requested /\ todo' = sorted(requested)
    /\ pc' = "loop"
    /\ UNCHANGED <<csv_input, earlier, query, result, eur_writes, fx, lots, lots_by_asset, builds, summary, pending,
                   disposal_results, pd, calls, outputs, err>>

\* The ledger is built again for every year.
RunYearRebuild ==
    /\ pc = "loop"
    /\ todo # <<>>
    /\ BeginSummary(Head(todo))
    /\ todo' = Tail(todo)
    /\ lots' = LedgerLots(result)
    /\ lots_by_asset' = build_lot_queue(lots')
    /\ builds' = builds + 1
    /\ UNCHANGED <<csv_input, earlier, query, years, result, eur_writes, fx, pd, calls, outputs, err>>

\* api.run lines 107-116: the next year of the loop calls compute_annual_summary.
RunYear ==
    /\ pc = "loop"
    /\ todo # <<>>
    /\ BeginSummary(Head(todo))
    /\ todo' = Tail(todo)
    /\ UNCHANGED <<csv_input, earlier, query, years, result, eur_writes, fx, lots, lots_by_asset, builds, pd, calls,
                   outputs, err>>

\* api.run lines 146-149: the loop is over, run returns.
Return ==
    /\ pc = "loop"
    /\ todo = <<>>
    /\ pc' = "done"
    /\ UNCHANGED <<csv_input, earlier, query, years, result, eur_writes, fx, lots, lots_by_asset, builds, todo, summary,
                   pending, disposal_results, pd, calls, outputs, err>>

\* process_disposal lines 80-83, for the next disposal of the year (line 157).
StartDisposal ==
    /\ pc = "matching"
    /\ pending # <<>>
    /\ pd' = [disposal |-> Head(pending),
              qty_needed |-> result.disposal_events[Head(pending)].quantity,
              total_cost |-> DecZero, lots_consumed |-> <<>>]
    /\ pending' = Tail(pending)
    /\ calls' = Append(calls, Head(pending))
    /\ pc' = "consuming"
    /\ UNCHANGED <<csv_input, earlier, query, years, result, eur_writes, fx, lots, lots_by_asset, builds, todo, summary,
                   disposal_results, outputs, err>>

Disposal == result.disposal_events[pd.disposal]

\* while lots and qty_needed > 0
LoopGoesOn ==
    /\ QueueOf(lots_by_asset, Disposal.asset) # <<>>
    /\ DecLT(DecZero, pd.qty_needed)

\* process_disposal lines 86-94: one pass of the while loop.  used / lot.quantity
\* raises decimal.InvalidOperation for a lot of quantity 0.
ConsumeLot ==
    /\ pc = "consuming"
    /\ LoopGoesOn
    /\ LET asset == Disposal.asset
           id    == Head(lots_by_asset[asset])
           lot   == lots[id]
           used  == Used(lot, pd.qty_needed)
           cost_from_lot == CostFromLot(lot, used)
       IN  IF lot.quantity = DecZero
           THEN /\ Raise("InvalidOperation", "", DecZero)
                /\ UNCHANGED <<lots, lots_by_asset, pd>>
           ELSE /\ lots' = [lots EXCEPT ![id] = Consume(lot, used)]
                /\ lots_by_asset' =
                       [lots_by_asset EXCEPT ![asset] = PopIfSpent(@, lots'[id])]
                /\ pd' = [pd EXCEPT
                             !.total_cost = DecAdd(@, cost_from_lot),
                             !.qty_needed = DecSub(@, used),
                             !.lots_consumed =
                                 Append(@, ConsumedEntry(lot, used, cost_from_lot))]
                /\ UNCHANGED <<pc, err>>
    /\ UNCHANGED <<csv_input, earlier, query, years, result, eur_writes, fx, builds, todo, summary, pending,
                   disposal_results, calls, outputs>>

\* process_disposal lines 96-110: the shortfall error, or the DisposalResult.
FinishDisposal ==
    /\ pc = "consuming"
    /\ ~LoopGoesOn
    /\ IF DecLT(DecZero, pd.qty_needed)
       THEN /\ Raise("ValueError: Not enough lots", Disposal.asset, pd.qty_needed)
            /\ UNCHANGED <<disposal_results, pd>>
       ELSE /\ disposal_results' =
                   Append(disposal_results,
                          [disposal |-> Disposal, cost_basis_eur |-> pd.total_cost,
                           gain_eur |-> Gain(Disposal, pd.total_cost),
                           lots_consumed |-> pd.lots_consumed])
            /\ pd' = NoDisposal
            /\ pc' = "matching"
            /\ err' = err
    /\ UNCHANGED <<csv_input, earlier, query, years, result, eur_writes, fx, lots, lots_by_asset, builds, todo, summary,
                   pending, calls, outputs>>

\* compute_annual_summary lines 159-197: the totals, the scan of the whole ledger and
\* the AnnualSummary handed back.
EndSummary ==
    /\ pc = "matching"
    /\ pending = <<>>
    /\ outputs' = Append(outputs,
                         [summary |->
                              [totals |-> summary,
                               disposal_results |-> disposal_results,
                               disposal_totals |-> DisposalTotals(disposal_results),
                               remaining_lots |-> RemainingLots(lots, lots_by_asset),
                               remaining_by_asset |->
                                   RemainingByAsset(lots, lots_by_asset)],
                          card_analysis |-> <<>>])
    /\ disposal_results' = <<>>
    /\ pc' = "returned"
    /\ UNCHANGED <<csv_input, earlier, query, years, result, eur_writes, fx, lots, lots_by_asset, builds, todo, summary,
                   pending, pd, calls, err>>

\* print_summary lines 78-84: each entry of lots_consumed is unpacked into four names and
\* min() is taken over the acquisition dates, for every result of the year.
Printable(results) ==
    \A i \in DOMAIN results :
        /\ results[i].lots_consumed # <<>>
        /\ \A k \in DOMAIN results[i].lots_consumed : Len(results[i].lots_consumed[k]) = 4

\* api.run line 117: print_summary(summary)
PrintSummary ==
    /\ pc = "returned"
    /\ IF Printable(outputs[Len(outputs)].summary.disposal_results)
       THEN pc' = "card" /\ err' = err
       ELSE Raise("ValueError", "", DecZero)
    /\ UNCHANGED <<csv_input, earlier, query, years, result, eur_writes, fx, lots, lots_by_asset, builds, todo, summary,
                   pending, disposal_results, pd, calls, outputs>>

\* api.run lines 120-129: the card analysis of the year.
CardAnalysis ==
    /\ pc = "card"
    /\ outputs' =
           [outputs EXCEPT ![Len(outputs)].card_analysis =
               compute_card_analysis(
                   summary.year, result.card_purchase_events, result.repayment_events,
                   DecSub(summary.total_cashback_eur, summary.total_cashback_reversal_eur))]
    /\ pc' = "loop"
    /\ UNCHANGED <<csv_input, earlier, query, years, result, eur_writes, fx, lots, lots_by_asset, builds, todo, summary,
                   pending, disposal_results, pd, calls, err>>

\* Every call starts from a fresh copy of the ledger.
CallSummaryFresh ==
    /\ pc \in {"built", "returned"}
    /\ Len(outputs) < MaxCalls
    /\ \E year \in Years : BeginSummary(year)
    /\ lots' = LedgerLots(result)
    /\ lots_by_asset' = build_lot_queue(lots')
    /\ UNCHANGED <<csv_input, earlier, query, years, result, eur_writes, fx, builds, todo, pd, calls, outputs, err>>

\* test_integration.py lines 173-196: compute_annual_summary called directly, once per
\* year, on the ledger the caller built.
CallSummary ==
    /\ pc \in {"built", "returned"}
    /\ Len(outputs) < MaxCalls
    /\ \E year \in Years : BeginSummary(year)
    /\ UNCHANGED <<csv_input, earlier, query, years, result, eur_writes, fx, lots, lots_by_asset, builds, todo, pd, calls,
                   outputs, err>>

Enrich ==
    \/ EnrichCashback
    \/ EnrichReversal
    \/ EnrichInterest
    \/ EnrichExchangeBuy
    \/ EnrichDisposal

Match ==
    \/ StartDisposal
    \/ ConsumeLot
    \/ FinishDisposal
    \/ EndSummary

\* api.run
Next ==
    \/ ParseInput
    \/ BuildFx
    \/ Enrich
    \/ BuildLots
    \/ SortYears
    \/ RunYear
    \/ Match
    \/ PrintSummary
    \/ CardAnalysis
    \/ Return

Spec == Init /\ [][Next]_vars

\* The calculator driven call by call.
NextCalls ==
    \/ ParseInput
    \/ BuildFx
    \/ Enrich
    \/ BuildLots
    \/ CallSummary
    \/ Match

SpecCalls == Init /\ [][NextCalls]_vars

(***************************************************************************)
(* The parser on its own: a run of SpecParse is handed up to MaxExportRows  *)
(* of the rows below, in the order listed or in the reverse order, in one  *)
(* file or cut into two, under a header that may lack columns or have      *)
(* more; it checks the headers and then classifies the rows.               *)
(***************************************************************************)
MaxExportRows == 2

REQUIRED_COLUMNS ==
    {"Transaction", "Type", "Input Currency", "Input Amount", "Output Currency",
     "Output Amount", "USD Equivalent", "Fee", "Fee Currency", "Details",
     "Date / Time (UTC)"}

ExportRows ==
    << Row("X1", "Exchange", "BTC", -1, "ETH", 2, 3, At(2025, 1, 0)),
       Row("X2", "Exchange", "EURX", -3, "BTC", 1, 3, At(2024, 2, 1)),
       Row("X3", "Exchange", "BTC", -2, "EUR", 3, 3, At(2024, 0, 1)),
       Row("X4", "Exchange", "EUR", -2, "USD", 2, 2, At(2025, 0, 0)),
       Row("X5", "Exchange Collateral", "USDT", -3, "USDC", 3, 3, At(2024, 1, 1)),
       Row("X6", "Exchange Collateral", "USDX", -1, "EURX", 1, 1, At(2025, 2, 0)),
       Row("X7", "Exchange Collateral", "NEXO", 1, "xUSD", 1, 1, At(2024, 1, 0)),
       Row("X8", "Exchange Collateral", "EUR", -1, "NEXO", -2, 1, At(2025, 1, 1)),
       Row("U1", "Deposit", "NEXO", 1, "NEXO", 1, 1, At(2024, 2, 0)),
       Row("U2", "Interest", "USDX", 1, "USDX", 1, 1, At(2025, 0, 1)),
       Row("U3", "Interest", "NEXO", 0, "NEXO", 0, 0, At(2024, 0, 0)),
       Row("U4", "Fixed Term Interest", "NEXO", -1, "NEXO", 1, 1, At(2025, 2, 1)),
       Row("U5", "Manual Sell Order", "EUR", -1, "USD", 1, 1, At(2024, 1, 0)),
       Row("U6", "Withdrawal", "USD", -1, "USD", 1, 1, At(2025, 0, 0)),
       Row("U7", "Cashback", "BTC", 1, "BTC", 1, 1, At(2024, 2, 1)),
       Row("U8", "Top up Crypto", "EURX", 2, "EURX", 2, 2, At(2025, 1, 0)),
       Row("T1", "Top up Crypto", "BTC", -1, "BTC", 0, 1, At(2024, 1, 1)),
       Row("T2", "Top up Crypto", "BTC", 2, "BTC", 2, 2, At(2024, 0, 0)),
       Row("K1", "Cashback", "NEXO", 1, "NEXO", 1, 1, At(2025, 2, 0)),
       Row("K2", "Cashback", "NEXO", 2, "NEXO", 2, 2, At(2024, 0, 1)),
       Row("R1", "Nexo Card Cashback Reversal", "NEXO", -1, "NEXO", 0, 1, At(2025, 0, 1)),
       Row("R2", "Nexo Card Cashback Reversal", "USD", -2, "EUR", 2, 2, At(2024, 2, 0)),
       Row("I1", "Interest", "NEXO", 1, "NEXO", 1, 1, At(2025, 1, 1)),
       Row("I2", "Exchange Cashback", "BTC", 2, "BTC", 2, 3, At(2024, 1, 0)),
       Row("P1", "Nexo Card Purchase", "USD", -2, "EUR", 1, 2, At(2025, 2, 1)),
       Row("P2", "Nexo Card Purchase", "xUSD", -3, "EUR", 2, 3, At(2024, 0, 0)),
       Row("L1", "Exchange Liquidation", "EUR", -2, "USD", 2, 2, At(2025, 0, 0)),
       Row("L2", "Exchange Liquidation", "EURX", -1, "USDX", 1, 1, At(2024, 2, 1)),
       Row("W1", "Withdrawal", "NEXO", -1, "NEXO", 1, 1, At(2025, 1, 0)),
       Row("M1", "Manual Sell Order", "BTC", -2, "EURX", 3, 3, At(2024, 1, 1)) >>

\* The rows of ExportRows at the places in picked, in the order listed.
PickExport(picked) ==
    LET Test(i) == i \in picked
        places  == SelectSeq([i \in DOMAIN ExportRows |-> i], Test)
    IN  [k \in DOMAIN places |-> ExportRows[places[k]]]

RECURSIVE Places(_)
\* The sets of at most n places of ExportRows.
Places(n) ==
    IF n = 0 THEN {{}}
    ELSE Places(n - 1) \cup {p \cup {i} : p \in Places(n - 1), i \in DOMAIN ExportRows}

ExportLists ==
    UNION { {PickExport(picked), Reverse(PickExport(picked))} :
              picked \in Places(MaxExportRows) }

\* The header rows: all the columns, some of them gone, one more, others, or none.
Headers ==
    { (REQUIRED_COLUMNS \ gone) \cup more :
          gone \in SUBSET {"Transaction", "Type", "Date / Time (UTC)"},
          more \in SUBSET {"ExtraColumn"} }
    \cup { {"SomeOtherColumn", "AnotherColumn"}, {} }

File(fieldnames, rows) == [fieldnames |-> fieldnames, rows |-> rows]

\* The rows as one file or cut into two under the full header, and up to two files of
\* at most one row each under any header.
Exports ==
    { <<File(REQUIRED_COLUMNS, rows)>> : rows \in ExportLists }
    \cup { <<File(REQUIRED_COLUMNS, SubSeq(p[1], 1, p[2])),
             File(REQUIRED_COLUMNS, SubSeq(p[1], p[2] + 1, Len(p[1])))>> :
             p \in {q \in ExportLists \X (1..MaxExportRows) : q[2] < Len(q[1])} }
    \cup UNION { { <<File(h, rows)>> :
                     rows \in {l \in ExportLists : Len(l) <= 1 /\ (h = {} => l = <<>>)} } :
                   h \in Headers }
    \cup { <<File(REQUIRED_COLUMNS, <<ExportRows[1]>>), File(h, <<>>)>> : h \in Headers }

InitParse == csv_input \in Exports /\ earlier = <<>> /\ Fresh

\* csv.DictReader: the rows under the header.
DictReader(csv_contents) == [i \in DOMAIN csv_contents |-> csv_contents[i].rows]

\* A check that names one missing column only.
validate_first_missing(content) ==
    IF content.fieldnames = {}
    THEN [kind |-> "ValueError: CSV is empty or has no header row", missing |-> {}]
    ELSE IF REQUIRED_COLUMNS \ content.fieldnames # {}
    THEN [kind |-> "ValueError: CSV is missing required columns",
          missing |-> {CHOOSE column \in REQUIRED_COLUMNS : column \notin content.fieldnames}]
    ELSE [kind |-> "", missing |-> {}]

\* validate_csv_schema: the error for a header, if any.
validate_csv_schema(content) ==
    IF content.fieldnames = {}
    THEN [kind |-> "ValueError: CSV is empty or has no header row", missing |-> {}]
    ELSE IF REQUIRED_COLUMNS \ content.fieldnames # {}
    THEN [kind |-> "ValueError: CSV is missing required columns",
          missing |-> REQUIRED_COLUMNS \ content.fieldnames]
    ELSE [kind |-> "", missing |-> {}]

\* Every file's header is checked before any row is read; the first bad one ends the run.
ValidateSchema ==
    /\ pc = "start"
    /\ LET bad == {i \in DOMAIN csv_input : validate_csv_schema(csv_input[i]).kind # ""}
       IN  IF bad = {}
           THEN pc' = "validated" /\ UNCHANGED err
           ELSE /\ pc' = "failed"
                /\ err' = validate_csv_schema(
                              csv_input[CHOOSE i \in bad : \A j \in bad : i <= j])
    /\ UNCHANGED <<csv_input, earlier, query, result, eur_writes, years, fx, lots, lots_by_asset, builds, todo,
                   summary, pending, disposal_results, pd, calls, outputs>>

\* parse_csvs_from_strings on files whose headers passed.
ParseFiles ==
    /\ pc = "validated"
    /\ result' = parse_csvs_from_strings(DictReader(csv_input))
    /\ pc' = "parsed"
    /\ UNCHANGED <<csv_input, earlier, query, eur_writes, years, fx, lots, lots_by_asset, builds, todo,
                   summary, pending, disposal_results, pd, calls, outputs, err>>

\* parse_csv_from_string on one file whose header passed.
ParseFile ==
    /\ pc = "validated"
    /\ Len(csv_input) = 1
    /\ result' = parse_csv_from_string(DictReader(csv_input)[1])
    /\ pc' = "parsed_file"
    /\ UNCHANGED <<csv_input, earlier, query, eur_writes, years, fx, lots, lots_by_asset, builds, todo,
                   summary, pending, disposal_results, pd, calls, outputs, err>>

NextParse ==
    \/ ValidateSchema
    \/ ParseFile
    \/ ParseFiles

SpecParse == InitParse /\ [][NextParse]_vars

(***************************************************************************)
(* The rate table on its own: a run of SpecFx is handed up to              *)
(* MaxObservations of the observations below, in the order listed or in    *)
(* the reverse order, builds the table and asks it for rates.              *)
(***************************************************************************)
MaxObservations == 3

FxObservation(dt, eur, usd) == [date |-> dt, eur_amount |-> Dec(eur), usd_amount |-> Dec(usd)]

ObservationUniverse ==
    << FxObservation(At(2024, 1, 0), 1, 1),
       FxObservation(At(2024, 1, 1), 1, 3),
       FxObservation(At(2025, 0, 0), 3, 4),
       FxObservation(At(2024, 2, 0), 0, 0),
       FxObservation(At(2025, 2, 1), 2, 3),
       FxObservation(At(2024, 1, 0), 2, 4),
       FxObservation(At(2025, 1, 0), 1, 0),
       FxObservation(At(2025, 0, 1), 1, 2) >>

PickObservations(picked) ==
    LET Test(i) == i \in picked
        places  == SelectSeq([i \in DOMAIN ObservationUniverse |-> i], Test)
    IN  [k \in DOMAIN places |-> ObservationUniverse[places[k]]]

ObservationLists ==
    UNION { {PickObservations(picked), Reverse(PickObservations(picked))} :
              picked \in {p \in SUBSET DOMAIN ObservationUniverse :
                              Cardinality(p) <= MaxObservations} }

\* Every datetime of the years at hand.
QueryTimes == 0 .. (At(2025, DaysPerYear - 1, TicksPerDay - 1))

\* The caller has its observations at hand.
Observe ==
    /\ pc = "start"
    /\ \E observations \in ObservationLists :
          result' = [result EXCEPT !.fx_observations = observations]
    /\ pc' = "fx"
    /\ UNCHANGED <<csv_input, earlier, query, eur_writes, years, fx, lots, lots_by_asset, builds, todo,
                   summary, pending, disposal_results, pd, calls, outputs, err>>

\* fx.rate_for_date(dt) on the table built; _nearest_rate raises ValueError when the
\* table has no observation.
Query ==
    /\ pc = "enrich_cashback"
    /\ \E dt \in QueryTimes :
          IF RateDefined(fx)
          THEN /\ query' = [dt |-> dt, rate |-> rate_for_date(fx, dt)]
               /\ UNCHANGED <<pc, err>>
          ELSE /\ Raise("ValueError: No FX observations available", "", DecZero)
               /\ query' = [dt |-> dt, rate |-> DecZero]
    /\ UNCHANGED <<csv_input, earlier, result, eur_writes, years, fx, lots, lots_by_asset, builds, todo,
                   summary, pending, disposal_results, pd, calls, outputs>>

NextFx ==
    \/ Observe
    \/ BuildFx
    \/ Query

SpecFx == Init /\ [][NextFx]_vars

(***************************************************************************)
(* The aggregation on its own: a run of SpecEvents is handed up to         *)
(* MaxEvents of the events below, their EUR values set, builds the ledger  *)
(* and calls compute_annual_summary and compute_card_analysis for years    *)
(* of its choice.                                                          *)
(***************************************************************************)
MaxEvents == 3

CashbackEvent(tx_id, dt, amount_nexo, value_eur) ==
    [tx_id |-> tx_id, date |-> dt, amount_nexo |-> Dec(amount_nexo), value_usd |-> Dec(value_eur),
     value_eur |-> Dec(value_eur), merchant |-> tx_id]

CashbackReversalEvent(tx_id, dt, value_eur) ==
    [tx_id |-> tx_id, date |-> dt, value_usd |-> Dec(value_eur), value_eur |-> Dec(value_eur)]

InterestEvent(tx_id, dt, asset, amount, value_eur) ==
    [tx_id |-> tx_id, date |-> dt, asset |-> asset, amount |-> Dec(amount),
     value_usd |-> Dec(value_eur), value_eur |-> Dec(value_eur), source |-> "Interest"]

ExchangeBuyEvent(tx_id, dt, asset, amount, value_eur) ==
    [tx_id |-> tx_id, date |-> dt, asset |-> asset, amount |-> Dec(amount),
     spent_amount |-> Dec(value_eur), spent_currency |-> "EURX", value_usd |-> Dec(value_eur),
     value_eur |-> Dec(value_eur)]

SoldEvent(tx_id, dt, asset, quantity, proceeds_eur) ==
    [tx_id |-> tx_id, date |-> dt, asset |-> asset, quantity |-> Dec(quantity),
     proceeds_usd |-> Dec(proceeds_eur), proceeds_eur |-> Dec(proceeds_eur),
     fee_eur |-> DecZero, description |-> tx_id]

CardPurchaseEvent(tx_id, dt, eur, usd) ==
    [tx_id |-> tx_id, date |-> dt, eur_amount |-> Dec(eur), usd_amount |-> Dec(usd),
     merchant |-> "Test Shop"]

RepaymentEvent(tx_id, dt, eur, usd) ==
    [tx_id |-> tx_id, date |-> dt, eur_amount |-> Dec(eur), usd_amount |-> Dec(usd)]

\* The events at hand, each with the collection it belongs to.
EventUniverse ==
    << <<"card_purchase_events", CardPurchaseEvent("P24", At(2024, 1, 0), 2, 3)>>,
       <<"card_purchase_events", CardPurchaseEvent("P25", At(2025, 0, 0), 3, 4)>>,
       <<"repayment_events", RepaymentEvent("Q24", At(2024, 2, 0), 3, 3)>>,
       <<"repayment_events", RepaymentEvent("Q25", At(2025, 1, 0), 4, 4)>>,
       <<"repayment_events", RepaymentEvent("Q26", At(2025, 2, 0), 1, 2)>>,
       <<"cashback_events", CashbackEvent("K24", At(2024, 0, 0), 3, 2)>>,
       <<"cashback_events", CashbackEvent("K25", At(2025, 0, 1), 2, 1)>>,
       <<"cashback_reversal_events", CashbackReversalEvent("V24", At(2024, 1, 1), 1)>>,
       <<"cashback_reversal_events", CashbackReversalEvent("V25", At(2025, 1, 1), 2)>>,
       <<"interest_events", InterestEvent("N24", At(2024, 0, 1), "NEXO", 2, 1)>>,
       <<"interest_events", InterestEvent("N25", At(2025, 1, 0), "BTC", 1, 2)>>,
       <<"exchange_buy_events", ExchangeBuyEvent("E24", At(2024, 2, 1), "BTC", 2, 3)>>,
       <<"exchange_buy_events", ExchangeBuyEvent("E25", At(2025, 0, 0), "NEXO", 1, 1)>>,
       <<"disposal_events", SoldEvent("D24", At(2024, 2, 0), "NEXO", 1, 2)>>,
       <<"disposal_events", SoldEvent("D25", At(2025, 2, 1), "NEXO", 2, 3)>> >>

\* The events of a collection among those at the places in picked, in the order listed.
Collection(name, picked) ==
    LET Test(i) == i \in picked /\ EventUniverse[i][1] = name
        places  == SelectSeq([i \in DOMAIN EventUniverse |-> i], Test)
    IN  [k \in DOMAIN places |-> EventUniverse[places[k]][2]]

EventsAt(picked) ==
    [cashback_events |-> Collection("cashback_events", picked),
     cashback_reversal_events |-> Collection("cashback_reversal_events", picked),
     interest_events |-> Collection("interest_events", picked),
     exchange_buy_events |-> Collection("exchange_buy_events", picked),
     fx_observations |-> <<>>,
     disposal_events |-> Collection("disposal_events", picked),
     card_purchase_events |-> Collection("card_purchase_events", picked),
     repayment_events |-> Collection("repayment_events", picked)]

RECURSIVE EventPlaces(_)
\* The sets of at most n places of EventUniverse.
EventPlaces(n) ==
    IF n = 0 THEN {{}}
    ELSE EventPlaces(n - 1)
         \cup {p \cup {i} : p \in EventPlaces(n - 1), i \in DOMAIN EventUniverse}

\* The caller has its events at hand, EUR values set.
GiveEvents ==
    /\ pc = "start"
    /\ \E picked \in EventPlaces(MaxEvents) : result' = EventsAt(picked)
    /\ pc' = "build"
    /\ UNCHANGED <<csv_input, earlier, query, eur_writes, years, fx, lots, lots_by_asset, builds, todo,
                   summary, pending, disposal_results, pd, calls, outputs, err>>

\* compute_card_analysis for the year of the summary just returned, with its net cashback.
CallCardAnalysis ==
    /\ pc = "returned"
    /\ outputs[Len(outputs)].card_analysis = <<>>
    /\ outputs' =
           [outputs EXCEPT ![Len(outputs)].card_analysis =
               compute_card_analysis(
                   summary.year, result.card_purchase_events, result.repayment_events,
                   DecSub(summary.total_cashback_eur, summary.total_cashback_reversal_eur))]
    /\ UNCHANGED <<csv_input, earlier, query, pc, years, result, eur_writes, fx, lots, lots_by_asset,
                   builds, todo, summary, pending, disposal_results, pd, calls, err>>

NextEvents ==
    \/ GiveEvents
    \/ BuildLots
    \/ CallSummary
    \/ Match
    \/ CallCardAnalysis

SpecEvents == Init /\ [][NextEvents]_vars

(***************************************************************************)
(* api.run called twice by one process with the same arguments.  The       *)
(* arguments are up to MaxRunRows of the rows of RunUniverse in one file,  *)
(* and up to MaxYears years.  What the first call left in memory is still  *)
(* there when the second starts; only what a call hands back is new.       *)
(***************************************************************************)
MaxRunRows == 3

RunUniverse ==
    {i \in DOMAIN RowUniverse : RowUniverse[i].Transaction \in {"P1", "D1", "C1", "B1", "I1", "Z1"}}

RunInputs ==
    { <<Pick(picked)>> : picked \in {p \in SUBSET RunUniverse : Cardinality(p) <= MaxRunRows} }

\* run(csv_contents, years): the caller's arguments.
CallRun ==
    /\ pc = "start"
    /\ \E csv_contents \in RunInputs, requested \in YearLists :
          /\ csv_input' = csv_contents
          /\ years' = requested
    /\ pc' = "called"
    /\ UNCHANGED <<earlier, query, result, eur_writes, fx, lots, lots_by_asset, builds, todo,
                   summary, pending, disposal_results, pd, calls, outputs, err>>

\* api.run line 65, on the arguments of the call.
ParseGiven ==
    /\ pc = "called"
    /\ result' = parse_csvs_from_strings(csv_input)
    /\ eur_writes' = [cashback |-> Zeros(result'.cashback_events),
                      reversal |-> Zeros(result'.cashback_reversal_events),
                      interest |-> Zeros(result'.interest_events),
                      exchange_buy |-> Zeros(result'.exchange_buy_events),
                      disposal |-> Zeros(result'.disposal_events)]
    /\ pc' = "fx"
    /\ UNCHANGED <<csv_input, earlier, query, years, fx, lots, lots_by_asset, builds, todo,
                   summary, pending, disposal_results, pd, calls, outputs, err>>

\* api.run line 107, on the arguments of the call.
SortGiven ==
    /\ pc = "built"
    /\ todo' = sorted(years)
    /\ pc' = "loop"
    /\ UNCHANGED <<csv_input, earlier, query, years, result, eur_writes, fx, lots,
                   lots_by_asset, builds, summary, pending, disposal_results, pd, calls,
                   outputs, err>>

\* The first call has returned or raised; the caller calls run again with the same
\* arguments.  The objects of the first call are left as they are.
CallAgain ==
    /\ pc \in {"done", "failed"}
    /\ earlier = <<>>
    /\ earlier' = <<[outputs |-> outputs, err |-> err, calls |-> calls]>>
    /\ outputs' = <<>>
    /\ err' = NoError
    /\ calls' = <<>>
    /\ builds' = 0
    /\ pc' = "called"
    /\ UNCHANGED <<csv_input, query, years, result, eur_writes, fx, lots, lots_by_asset, todo,
                   summary, pending, disposal_results, pd>>

NextTwice ==
    \/ CallRun
    \/ ParseGiven
    \/ BuildFx
    \/ Enrich
    \/ BuildLots
    \/ SortGiven
    \/ RunYear
    \/ Match
    \/ PrintSummary
    \/ CardAnalysis
    \/ Return
    \/ CallAgain

SpecTwice == Init /\ [][NextTwice]_vars

(***************************************************************************)
(* Properties of the lot ledger.                                           *)
(***************************************************************************)
DecEq(a, b) == ~DecLT(a, b) /\ ~DecLT(b, a)

RECURSIVE ResultsOf(_)
\* The DisposalResults of the summaries handed back so far.
ResultsOf(outs) ==
    IF outs = <<>> THEN <<>>
    ELSE ResultsOf(SubSeq(outs, 1, Len(outs) - 1)) \o outs[Len(outs)].summary.disposal_results

\* Every DisposalResult process_disposal has returned, in order.
AllResults == ResultsOf(outputs) \o disposal_results

RECURSIVE EntriesOf(_)
\* The lots_consumed entries of a list of DisposalResults, in order.
EntriesOf(results) ==
    IF results = <<>> THEN <<>>
    ELSE EntriesOf(SubSeq(results, 1, Len(results) - 1)) \o results[Len(results)].lots_consumed

Assets ==
    {lots[id].asset : id \in DOMAIN lots}
    \cup {result.disposal_events[i].asset : i \in DOMAIN result.disposal_events}

\* Sum of (original quantity - remaining) over all lots of the asset, queued or not.
ConsumedOf(asset) ==
    SumDec([id \in DOMAIN lots |->
        IF lots[id].asset = asset THEN DecSub(lots[id].quantity, lots[id].remaining)
        ELSE DecZero])

\* Sum of the quantities of the disposals of the asset that process_disposal completed.
DisposedOf(asset) ==
    SumDec([i \in DOMAIN AllResults |->
        IF AllResults[i].disposal.asset = asset THEN AllResults[i].disposal.quantity
        ELSE DecZero])

\* Sum of the quantities of the disposals of the asset handed to process_disposal.
CalledOf(asset) ==
    SumDec([i \in DOMAIN calls |->
        IF result.disposal_events[calls[i]].asset = asset
        THEN result.disposal_events[calls[i]].quantity
        ELSE DecZero])

\* What the disposal being matched, or the one that failed, has taken so far.
TakenSoFar(asset) ==
    IF pd.disposal # 0 /\ Disposal.asset = asset
    THEN DecSub(Disposal.quantity, pd.qty_needed)
    ELSE DecZero

\* The quantity the DisposalResults record as consumed from a lot.
UsedFrom(id) ==
    LET entries == EntriesOf(AllResults)
    IN  SumDec([k \in DOMAIN entries |->
            IF entries[k][1] = lots[id].tx_id THEN entries[k][2] ELSE DecZero])

QueuedIn(queues, id) ==
    \E asset \in DOMAIN queues : \E k \in DOMAIN queues[asset] : queues[asset][k] = id

EarlierSpent(id) ==
    \A j \in DOMAIN lots :
        (lots[j].asset = lots[id].asset /\ lots[j].acquired_date < lots[id].acquired_date)
            => lots[j].remaining = DecZero

\* C1: FIFO order. Whenever process_disposal takes quantity from a lot, every lot of
\* the same asset with an earlier acquisition date has remaining = 0; this holds for
\* every disposal of every sequence of disposals against the ledger.
C1_FifoOrder ==
    [][\A id \in DOMAIN lots :
          (pc = "consuming" /\ lots'[id] # lots[id]) => EarlierSpent(id)]_vars

\* A disposal has emptied the lot acquired at t1 and taken part of the lot acquired at
\* t2 while the lot acquired at t3 is untouched.
C1_Witness ==
    /\ pc = "consuming"
    /\ \E a, b, c \in DOMAIN lots :
          /\ lots[a].asset = lots[b].asset /\ lots[b].asset = lots[c].asset
          /\ lots[a].acquired_date < lots[b].acquired_date
          /\ lots[b].acquired_date < lots[c].acquired_date
          /\ lots[a].remaining = DecZero /\ lots[a].quantity # DecZero
          /\ DecLT(DecZero, lots[b].remaining) /\ DecLT(lots[b].remaining, lots[b].quantity)
          /\ lots[c].remaining = lots[c].quantity
          /\ Len(pd.lots_consumed) = 2

\* C2 as stated: quantity conservation. Whenever no disposal is being matched, for every
\* asset the sum of (original - remaining) over all its lots equals the sum of the
\* quantities of the disposals of that asset processed against the ledger (read either
\* as the disposals that completed or as all the disposals handed to process_disposal).
C2_Conservation ==
    pc # "consuming" =>
        \A asset \in Assets :
            \/ DecEq(ConsumedOf(asset), DisposedOf(asset))
            \/ DecEq(ConsumedOf(asset), CalledOf(asset))

\* C2 amended: for every asset, in every state, the sum of (original - remaining) over
\* all its lots equals the sum of the quantities of the disposals of that asset that
\* process_disposal completed plus the part of its quantity (quantity - quantity still
\* needed) that a disposal being matched, or one that failed, has already taken.
C2_ConservationOfTaken ==
    \A asset \in Assets :
        DecEq(ConsumedOf(asset), DecAdd(DisposedOf(asset), TakenSoFar(asset)))

\* A disposal completed and a later one failed on a shortfall after taking from a lot.
C2_Witness ==
    /\ pc = "failed"
    /\ err.kind = "ValueError: Not enough lots"
    /\ AllResults # <<>>
    /\ DecLT(DecZero, TakenSoFar(err.asset))
    /\ DecLT(DecZero, DisposedOf(err.asset))

\* C3 as stated: once the ledger is built every lot has 0 <= remaining <= original
\* quantity, and the quantity the DisposalResults record as consumed from a lot is at
\* most its original quantity.
C3_LotBounds ==
    builds > 0 =>
        \A id \in DOMAIN lots :
            /\ DecLE(DecZero, lots[id].remaining)
            /\ DecLE(lots[id].remaining, lots[id].quantity)
            /\ DecLE(UsedFrom(id), lots[id].quantity)

QueuesSorted ==
    \A asset \in DOMAIN lots_by_asset :
        \A k \in 1..(Len(lots_by_asset[asset]) - 1) :
            lots[lots_by_asset[asset][k]].acquired_date
                <= lots[lots_by_asset[asset][k + 1]].acquired_date

SpentLotsLeave ==
    \A id \in DOMAIN lots :
        /\ (lots[id].remaining # DecZero /\ lots'[id].remaining = DecZero)
               => ~QueuedIn(lots_by_asset', id)
        /\ (builds > 0 /\ ~QueuedIn(lots_by_asset, id))
               => (lots'[id] = lots[id] /\ ~QueuedIn(lots_by_asset', id))

\* C4: every queue is always ordered by acquisition date ascending, whatever the order
\* and source of the acquisition events; a lot whose remaining reaches zero leaves the
\* queue in the same step, and a lot that has left the queue is never changed again and
\* never returns.
C4_QueueOrder == []QueuesSorted /\ [][SpentLotsLeave]_vars

\* A lot was emptied and removed while a lot of the same asset that build_lot_queue
\* created before it, from another source, is still queued behind it.
C4_Witness ==
    \E id, j \in DOMAIN lots :
        /\ j < id
        /\ lots[j].asset = lots[id].asset
        /\ lots[j].source # lots[id].source
        /\ lots[id].acquired_date < lots[j].acquired_date
        /\ lots[id].remaining = DecZero /\ lots[id].quantity # DecZero
        /\ ~QueuedIn(lots_by_asset, id)
        /\ QueuedIn(lots_by_asset, j)

LotOf(tx_id) == CHOOSE id \in DOMAIN lots : lots[id].tx_id = tx_id

\* Sum over the entries of lot.cost_eur * (quantity used / lot original quantity).
CostOfEntries(entries) ==
    SumDec([k \in DOMAIN entries |->
        DecMul(lots[LotOf(entries[k][1])].cost_eur,
               DecDiv(entries[k][2], lots[LotOf(entries[k][1])].quantity))])

\* 8 units against a 5-unit lot costing 4 and a 10-unit lot costing 9, proceeds 20.
CostExample ==
    LET first  == [quantity |-> Dec(5), remaining |-> Dec(5), cost_eur |-> Dec(4)]
        second == [quantity |-> Dec(10), remaining |-> Dec(10), cost_eur |-> Dec(9)]
        used1  == Used(first, Dec(8))
        used2  == Used(second, DecSub(Dec(8), used1))
        total  == DecAdd(DecAdd(DecZero, CostFromLot(first, used1)),
                         CostFromLot(second, used2))
    IN  /\ DecSub(DecSub(Dec(8), used1), used2) = DecZero
        /\ total = <<67, -1>>
        /\ Gain([proceeds_eur |-> Dec(20), fee_eur |-> DecZero], total) = <<133, -1>>

\* C5: every DisposalResult has cost_basis_eur = the sum over the lots it consumed of
\* lot.cost_eur * (quantity used / lot original quantity) and gain_eur = proceeds_eur -
\* fee_eur - cost_basis_eur; 8 units against 5 costing 4 and 10 costing 9 with proceeds
\* 20 give cost 6.7 and gain 13.3.
C5_CostBasisAndGain ==
    /\ CostExample
    /\ \A i \in DOMAIN AllResults :
          /\ AllResults[i].cost_basis_eur = CostOfEntries(AllResults[i].lots_consumed)
          /\ AllResults[i].gain_eur =
                 DecSub(DecSub(AllResults[i].disposal.proceeds_eur,
                               AllResults[i].disposal.fee_eur),
                        AllResults[i].cost_basis_eur)

\* A DisposalResult that consumed one lot whole and a part of the next.
C5_Witness ==
    \E i \in DOMAIN AllResults :
        /\ Len(AllResults[i].lots_consumed) = 2
        /\ DecLT(AllResults[i].lots_consumed[2][2],
                 lots[LotOf(AllResults[i].lots_consumed[2][1])].quantity)
        /\ AllResults[i].cost_basis_eur # DecZero
        /\ AllResults[i].gain_eur # AllResults[i].disposal.proceeds_eur

\* The remaining quantity queued for the asset.
QueueRemaining(asset) ==
    LET queue == QueueOf(lots_by_asset, asset)
    IN  SumDec([k \in DOMAIN queue |-> lots[queue[k]].remaining])

\* What was queued for the asset when the disposal at hand was handed over.
AvailableAtStart ==
    DecAdd(QueueRemaining(Disposal.asset), DecSub(Disposal.quantity, pd.qty_needed))

\* C6 as stated: a process_disposal that has ended for a disposal whose quantity exceeds
\* the remaining quantity queued for its asset has failed with the error naming the
\* asset and the shortfall = requested - available, and every DisposalResult returned
\* accounts for the whole quantity of its disposal (no clamping).
C6_ShortfallError ==
    /\ (pd.disposal # 0 /\ pc # "consuming" /\ DecLT(AvailableAtStart, Disposal.quantity))
           => /\ pc = "failed"
              /\ err.kind = "ValueError: Not enough lots"
              /\ err.asset = Disposal.asset
              /\ err.shortfall = DecSub(Disposal.quantity, AvailableAtStart)
    /\ \A i \in DOMAIN AllResults :
           LET entries == AllResults[i].lots_consumed
           IN  DecEq(SumDec([k \in DOMAIN entries |-> entries[k][2]]),
                     AllResults[i].disposal.quantity)

\* The quantity the disposal being matched has taken from a lot.
UsedNow(id) ==
    SumDec([k \in DOMAIN pd.lots_consumed |->
        IF pd.lots_consumed[k][1] = lots[id].tx_id THEN pd.lots_consumed[k][2]
        ELSE DecZero])

\* The entries recorded by the call at hand.
EntriesNow == EntriesOf(disposal_results) \o pd.lots_consumed

\* C7: carry-forward across calls on the same ledger. Every lot has remaining =
\* original - q, q the quantity taken from it by all the disposals matched so far, in
\* this call or in the calls for earlier years; every quantity taken is costed at
\* cost_eur * used / original; and when the call at hand has taken from a lot, every
\* lot of that asset acquired in an earlier year is spent.
C7_CarryForward ==
    /\ \A id \in DOMAIN lots :
           DecEq(lots[id].remaining,
                 DecSub(lots[id].quantity, DecAdd(UsedFrom(id), UsedNow(id))))
    /\ \A k \in DOMAIN EntriesNow :
           LET lot == lots[LotOf(EntriesNow[k][1])]
           IN  /\ EntriesNow[k][3] = DecMul(lot.cost_eur, DecDiv(EntriesNow[k][2], lot.quantity))
               /\ \A j \in DOMAIN lots :
                      (lots[j].asset = lot.asset
                         /\ YearOf(lots[j].acquired_date) < YearOf(lot.acquired_date))
                          => lots[j].remaining = DecZero

\* The call for 2024 took q units of a lot acquired in 2024, and a disposal of the call
\* for 2025 has taken the other original - q units and then gone on to a lot of 2025.
C7_Witness ==
    /\ Len(outputs) = 1
    /\ outputs[1].summary.totals.year = 2024
    /\ summary.year = 2025
    /\ \E id, later \in DOMAIN lots :
          LET before == EntriesOf(outputs[1].summary.disposal_results)
          IN  /\ YearOf(lots[id].acquired_date) = 2024
              /\ YearOf(lots[later].acquired_date) = 2025
              /\ lots[later].asset = lots[id].asset
              /\ \E k \in DOMAIN before :
                    /\ before[k][1] = lots[id].tx_id
                    /\ DecLT(DecZero, before[k][2])
                    /\ DecLT(before[k][2], lots[id].quantity)
                    /\ \E n \in DOMAIN EntriesNow :
                          /\ EntriesNow[n][1] = lots[id].tx_id
                          /\ EntriesNow[n][2] = DecSub(lots[id].quantity, before[k][2])
              /\ \E n \in DOMAIN EntriesNow : EntriesNow[n][1] = lots[later].tx_id

(***************************************************************************)
(* Properties of one run.                                                  *)
(***************************************************************************)
\* The years whose compute_annual_summary has started, in order.
StartedYears ==
    [k \in DOMAIN outputs |-> outputs[k].summary.totals.year]
    \o (IF Len(outputs) < Len(years) - Len(todo) THEN <<summary.year>> ELSE <<>>)

Count(list, x) == Cardinality({k \in DOMAIN list : list[k] = x})

\* C8: in one run the requested years are processed in ascending numeric order,
\* whatever the order they were requested in (each requested year once per request,
\* none started while a smaller one is still to come), and the disposals are handed to
\* process_disposal in non-decreasing timestamp order.
C8_ProcessingOrder ==
    /\ \A i, j \in DOMAIN StartedYears : i < j => StartedYears[i] <= StartedYears[j]
    /\ \A i \in DOMAIN StartedYears : \A k \in DOMAIN todo : StartedYears[i] <= todo[k]
    /\ \A y \in Years : Count(StartedYears \o todo, y) = Count(years, y)
    /\ \A i, j \in DOMAIN calls :
           i < j => result.disposal_events[calls[i]].date
                        <= result.disposal_events[calls[j]].date

\* The years were requested in descending order, both have been processed, and two
\* disposals with different timestamps were matched.
C8_Witness ==
    /\ years = <<2025, 2024>>
    /\ Len(outputs) = 2
    /\ outputs[1].summary.totals.year = 2024
    /\ outputs[2].summary.totals.year = 2025
    /\ \E i, j \in DOMAIN calls :
          result.disposal_events[calls[i]].date < result.disposal_events[calls[j]].date

\* One lot per acquisition event of the input, whatever its year.
LedgerComplete ==
    /\ Len(lots) = Len(result.cashback_events) + Len(result.interest_events)
                       + Len(result.exchange_buy_events)
    /\ \A i \in DOMAIN result.cashback_events :
           \E id \in DOMAIN lots :
               /\ lots[id].tx_id = result.cashback_events[i].tx_id
               /\ lots[id].asset = "NEXO"
               /\ lots[id].quantity = result.cashback_events[i].amount_nexo
               /\ lots[id].acquired_date = result.cashback_events[i].date
    /\ \A i \in DOMAIN result.interest_events :
           \E id \in DOMAIN lots :
               /\ lots[id].tx_id = result.interest_events[i].tx_id
               /\ lots[id].asset = result.interest_events[i].asset
               /\ lots[id].quantity = result.interest_events[i].amount
               /\ lots[id].acquired_date = result.interest_events[i].date
    /\ \A i \in DOMAIN result.exchange_buy_events :
           \E id \in DOMAIN lots :
               /\ lots[id].tx_id = result.exchange_buy_events[i].tx_id
               /\ lots[id].asset = result.exchange_buy_events[i].asset
               /\ lots[id].quantity = result.exchange_buy_events[i].amount
               /\ lots[id].acquired_date = result.exchange_buy_events[i].date

\* Nothing but process_disposal touches the ledger, and it only lowers remaining and
\* pops the front of a queue.
LedgerKept ==
    /\ builds' = builds
    /\ pc # "consuming" => (lots' = lots /\ lots_by_asset' = lots_by_asset)
    /\ DOMAIN lots' = DOMAIN lots
    /\ \A id \in DOMAIN lots : [lots'[id] EXCEPT !.remaining = lots[id].remaining] = lots[id]
    /\ DOMAIN lots_by_asset' = DOMAIN lots_by_asset
    /\ \A asset \in DOMAIN lots_by_asset :
           \/ lots_by_asset'[asset] = lots_by_asset[asset]
           \/ /\ lots_by_asset[asset] # <<>>
              /\ lots_by_asset'[asset] = Tail(lots_by_asset[asset])

\* C9: build_lot_queue is called exactly once in a run, before the first year is
\* processed, with the acquisition events of every year of the input; every year's
\* compute_annual_summary works on that ledger, which is never rebuilt or reset.
C9_BuiltOnce ==
    /\ [](/\ builds <= 1
          /\ builds = 0 => (lots = <<>> /\ outputs = <<>> /\ calls = <<>> /\ summary.year = 0)
          /\ builds = 1 => LedgerComplete)
    /\ [][builds > 0 => LedgerKept]_vars

\* The second year of a run is matching a disposal against a lot of the first year, in a
\* ledger that holds lots of both years.
C9_Witness ==
    /\ builds = 1
    /\ Len(outputs) = 1
    /\ pc = "consuming"
    /\ summary.year = 2025
    /\ \E id, other \in DOMAIN lots :
          /\ YearOf(lots[id].acquired_date) = 2024
          /\ YearOf(lots[other].acquired_date) = 2025
          /\ lots[id].remaining # lots[id].quantity

WrittenOnce ==
    \A list \in DOMAIN eur_writes : \A i \in DOMAIN eur_writes[list] : eur_writes[list][i] = 1

EurOf(usd, dt) == DecMul(usd, rate_for_date(fx, dt))

ValuesFromUsd(events) ==
    \A i \in DOMAIN events : events[i].value_eur = EurOf(events[i].value_usd, events[i].date)

EurFromUsd ==
    /\ ValuesFromUsd(result.cashback_events)
    /\ ValuesFromUsd(result.cashback_reversal_events)
    /\ ValuesFromUsd(result.interest_events)
    /\ ValuesFromUsd(result.exchange_buy_events)
    /\ \A i \in DOMAIN result.disposal_events :
           result.disposal_events[i].proceeds_eur =
               EurOf(result.disposal_events[i].proceeds_usd, result.disposal_events[i].date)

LotCostsFromUsd ==
    \A id \in DOMAIN lots :
        \E events \in {result.cashback_events, result.interest_events,
                       result.exchange_buy_events} :
            \E i \in DOMAIN events :
                /\ events[i].tx_id = lots[id].tx_id
                /\ lots[id].cost_eur = EurOf(events[i].value_usd, events[i].date)

\* C10: no EUR field of an event is assigned more than once; when build_lot_queue runs
\* and when any disposal is matched, every cashback, reversal, interest, exchange-buy
\* and disposal event has had its EUR value assigned exactly once, as its USD value
\* times the table's rate for its date, and the lots carry those values as cost; from
\* then on no event is written again.
C10_EnrichedOnce ==
    /\ [](/\ \A list \in DOMAIN eur_writes :
                \A i \in DOMAIN eur_writes[list] : eur_writes[list][i] <= 1
          /\ (pc = "build" \/ builds > 0 \/ calls # <<>>)
                 => (WrittenOnce /\ EurFromUsd /\ LotCostsFromUsd))
    /\ [][(pc = "build" \/ builds > 0) => (result' = result /\ eur_writes' = eur_writes)]_vars

\* A run with events of all five kinds has built its ledger and is matching a disposal.
C10_Witness ==
    /\ builds = 1
    /\ pc = "consuming"
    /\ result.cashback_events # <<>>
    /\ result.cashback_reversal_events # <<>>
    /\ result.interest_events # <<>>
    /\ result.exchange_buy_events # <<>>
    /\ \E id \in DOMAIN lots : lots[id].cost_eur # DecZero
    /\ Disposal.proceeds_eur # DecZero

\* The cost_from_lot amounts recorded for a lot, by the results returned and by the
\* disposal at hand.
CostRecordedFor(id) ==
    LET entries == EntriesOf(AllResults) \o pd.lots_consumed
    IN  SumDec([k \in DOMAIN entries |->
            IF entries[k][1] = lots[id].tx_id THEN entries[k][3] ELSE DecZero])

\* The number of consumptions recorded for a lot.
ConsumptionsOf(id) ==
    LET entries == EntriesOf(AllResults) \o pd.lots_consumed
    IN  Cardinality({k \in DOMAIN entries : entries[k][1] = lots[id].tx_id})

\* C11 as stated: once a lot is fully exhausted, whatever the split of its quantity
\* into partial consumptions by successive disposals, the cost_from_lot amounts
\* recorded for it sum exactly to its original cost_eur.
C11_RoundTrip ==
    \A id \in DOMAIN lots :
        (lots[id].remaining = DecZero /\ ConsumptionsOf(id) >= 1)
            => CostRecordedFor(id) = lots[id].cost_eur

(***************************************************************************)
(* Properties of the classifier.                                           *)
(***************************************************************************)
\* The rows handed over, file after file.
RECURSIVE RowsOf(_)
RowsOf(files) ==
    IF files = <<>> THEN <<>>
    ELSE RowsOf(SubSeq(files, 1, Len(files) - 1)) \o files[Len(files)].rows

\* The number of events of a collection that stem from a row.
EventsOf(events, row) ==
    Cardinality({i \in DOMAIN events : events[i].tx_id = row.Transaction})

\* C12: for every row of type Exchange or Exchange Collateral, the parsed result holds
\* one DisposalEvent of the row (asset = input currency) if the input currency is
\* crypto and none otherwise, and one ExchangeBuyEvent of the row (asset = output
\* currency) if the output currency is crypto and none otherwise, the one whatever the
\* other: crypto-to-crypto both, fiat-to-crypto the buy, crypto-to-fiat the disposal,
\* fiat-to-fiat nothing.
C12_ExchangeSides ==
    pc = "parsed" =>
        \A k \in DOMAIN RowsOf(csv_input) :
            LET row == RowsOf(csv_input)[k]
            IN  row.Type \in {"Exchange", "Exchange Collateral"} =>
                  /\ EventsOf(result.disposal_events, row) =
                         (IF row.InputCurrency \notin _FIAT_CURRENCIES THEN 1 ELSE 0)
                  /\ EventsOf(result.exchange_buy_events, row) =
                         (IF row.OutputCurrency \notin _FIAT_CURRENCIES THEN 1 ELSE 0)
                  /\ \A i \in DOMAIN result.disposal_events :
                         result.disposal_events[i].tx_id = row.Transaction
                             => result.disposal_events[i].asset = row.InputCurrency
                  /\ \A i \in DOMAIN result.exchange_buy_events :
                         result.exchange_buy_events[i].tx_id = row.Transaction
                             => result.exchange_buy_events[i].asset = row.OutputCurrency

\* A crypto-to-crypto Exchange and a fiat-to-fiat Exchange Collateral were parsed: the
\* result holds a disposal and a buy, both of the first row.
C12_Witness ==
    /\ pc = "parsed"
    /\ \E k, l \in DOMAIN RowsOf(csv_input) :
          LET swap == RowsOf(csv_input)[k]
              fiat == RowsOf(csv_input)[l]
          IN  /\ swap.Type = "Exchange"
              /\ swap.InputCurrency = "BTC" /\ swap.OutputCurrency = "ETH"
              /\ fiat.Type = "Exchange Collateral"
              /\ fiat.InputCurrency = "USDX" /\ fiat.OutputCurrency = "EURX"
              /\ Len(result.disposal_events) = 1 /\ Len(result.exchange_buy_events) = 1
              /\ result.disposal_events[1].tx_id = swap.Transaction
              /\ result.exchange_buy_events[1].tx_id = swap.Transaction

\* The type labels some classification rule names.
KnownTypes ==
    _INTEREST_TYPES \cup
    {"Cashback", "Nexo Card Cashback Reversal", "Exchange", "Exchange Collateral",
     "Manual Sell Order", "Withdrawal", "Top up Crypto", "Nexo Card Purchase",
     "Exchange Liquidation"}

\* A row no classification rule matches: an unknown type label, interest on a fiat
\* currency or with a non-positive amount, a sale or withdrawal of a fiat currency.
Unmatched(row) ==
    \/ row.Type \notin KnownTypes
    \/ row.Type \in _INTEREST_TYPES /\ row.InputCurrency \in _FIAT_CURRENCIES
    \/ row.Type \in _INTEREST_TYPES /\ row.InputAmount <= 0
    \/ row.Type \in {"Manual Sell Order", "Withdrawal"}
           /\ row.InputCurrency \in _FIAT_CURRENCIES

\* The files without their unmatched rows.
Matched(files) ==
    LET Keep(row) == ~Unmatched(row)
    IN  [i \in DOMAIN files |->
            [fieldnames |-> files[i].fieldnames, rows |-> SelectSeq(files[i].rows, Keep)]]

\* The events of the result that stem from a row, over the collections with a tx_id.
AllEventsOf(res, row) ==
    EventsOf(res.cashback_events, row) + EventsOf(res.cashback_reversal_events, row)
    + EventsOf(res.interest_events, row) + EventsOf(res.exchange_buy_events, row)
    + EventsOf(res.disposal_events, row) + EventsOf(res.card_purchase_events, row)
    + EventsOf(res.repayment_events, row)

\* C13: a row that matches no classification rule (unknown type label, interest on a
\* fiat currency, interest with a non-positive amount, Manual Sell Order or Withdrawal
\* of a fiat currency) emits no event and raises no error, and the other rows are
\* classified as they are without it: files whose headers pass are always parsed, and
\* the result is the result for the files without their unmatched rows.
C13_UnmatchedRowsDropped ==
    /\ pc = "failed" => \E i \in DOMAIN csv_input : validate_csv_schema(csv_input[i]).kind # ""
    /\ pc = "parsed" =>
          /\ err = NoError
          /\ \A k \in DOMAIN RowsOf(csv_input) :
                 Unmatched(RowsOf(csv_input)[k]) => AllEventsOf(result, RowsOf(csv_input)[k]) = 0
          /\ result = parse_csvs_from_strings(DictReader(Matched(csv_input)))

\* An unmatched row came before a row that a rule matches, and the result holds the
\* events of the second row only.
C13_Witness ==
    /\ pc = "parsed"
    /\ \E k, l \in DOMAIN RowsOf(csv_input) :
          /\ k < l
          /\ Unmatched(RowsOf(csv_input)[k])
          /\ RowsOf(csv_input)[k].Type \in _INTEREST_TYPES
          /\ ~Unmatched(RowsOf(csv_input)[l])
          /\ AllEventsOf(result, RowsOf(csv_input)[l]) = 1
          /\ AllEventsOf(result, RowsOf(csv_input)[k]) = 0

\* The files whose header lacks a required column, or is not there at all.
BadHeaders == {i \in DOMAIN csv_input : ~(REQUIRED_COLUMNS \subseteq csv_input[i].fieldnames)}

C15_Magnitudes ==
    /\ \A i \in DOMAIN result.disposal_events :
           DecLE(DecZero, result.disposal_events[i].quantity)
    /\ \A i \in DOMAIN result.exchange_buy_events :
           /\ DecLE(DecZero, result.exchange_buy_events[i].amount)
           /\ DecLE(DecZero, result.exchange_buy_events[i].spent_amount)

IsSortedByDate(events) ==
    \A i, j \in DOMAIN events : i < j => events[i].date <= events[j].date

\* How often an event occurs in a list.
Occurrences(events, ev) == Cardinality({i \in DOMAIN events : events[i] = ev})

\* The one list is the other in some order.
SameEvents(events, others) ==
    /\ Len(events) = Len(others)
    /\ \A i \in DOMAIN others : Occurrences(events, others[i]) = Occurrences(others, others[i])

\* All eight collections are sorted and hold the events the rows give rise to.
SortedAndComplete(res, rows) ==
    LET emitted == ClassifyRows(EmptyResult, rows)
    IN  /\ IsSortedByDate(res.cashback_events)
        /\ IsSortedByDate(res.cashback_reversal_events)
        /\ IsSortedByDate(res.interest_events)
        /\ IsSortedByDate(res.exchange_buy_events)
        /\ IsSortedByDate(res.fx_observations)
        /\ IsSortedByDate(res.disposal_events)
        /\ IsSortedByDate(res.card_purchase_events)
        /\ IsSortedByDate(res.repayment_events)
        /\ SameEvents(res.cashback_events, emitted.cashback_events)
        /\ SameEvents(res.cashback_reversal_events, emitted.cashback_reversal_events)
        /\ SameEvents(res.interest_events, emitted.interest_events)
        /\ SameEvents(res.exchange_buy_events, emitted.exchange_buy_events)
        /\ SameEvents(res.fx_observations, emitted.fx_observations)
        /\ SameEvents(res.disposal_events, emitted.disposal_events)
        /\ SameEvents(res.card_purchase_events, emitted.card_purchase_events)
        /\ SameEvents(res.repayment_events, emitted.repayment_events)

\* C16: after parsing one input, and after merging the inputs given, in whatever order,
\* each of the eight event collections is sorted by timestamp ascending and holds
\* every event of every input.
C16_SortedCollections ==
    /\ pc = "parsed_file" => SortedAndComplete(result, csv_input[1].rows)
    /\ pc = "parsed" => SortedAndComplete(result, RowsOf(csv_input))

\* Two files were merged, each holding one event of the same collection, the file with
\* the later event first.
C16_Witness ==
    /\ pc = "parsed"
    /\ Len(csv_input) = 2
    /\ Len(csv_input[1].rows) = 1 /\ Len(csv_input[2].rows) = 1
    /\ csv_input[2].rows[1].DateTime < csv_input[1].rows[1].DateTime
    /\ Len(result.disposal_events) = 2
    /\ result.disposal_events[1].tx_id = csv_input[2].rows[1].Transaction

(***************************************************************************)
(* Properties of the rate table.                                           *)
(***************************************************************************)
\* The observations of a calendar day, in the order given.
ObservationsOn(day) ==
    LET OnDay(obs) == DateOf(obs.date) = day
    IN  SelectSeq(result.fx_observations, OnDay)

EurOn(day) == SumDec([k \in DOMAIN ObservationsOn(day) |-> ObservationsOn(day)[k].eur_amount])

UsdOn(day) == SumDec([k \in DOMAIN ObservationsOn(day) |-> ObservationsOn(day)[k].usd_amount])

\* The mean of the rates of the day's observations.
MeanRateOn(day) ==
    DecDiv(SumDec([k \in DOMAIN ObservationsOn(day) |->
                      DecDiv(ObservationsOn(day)[k].eur_amount,
                             ObservationsOn(day)[k].usd_amount)]),
           Dec(Len(ObservationsOn(day))))

\* The calendar days of the years at hand.
Days == {DateOf(dt) : dt \in QueryTimes}

\* C17: the table built has a rate for a calendar day if and only if the day has an
\* observation, and the rate is (sum of the day's EUR amounts) / (sum of the day's USD
\* amounts), the volume-weighted average.
C17_VolumeWeighted ==
    pc = "enrich_cashback" =>
        /\ \A day \in Days : day \in DOMAIN fx._rates <=> ObservationsOn(day) # <<>>
        /\ \A day \in DOMAIN fx._rates : fx._rates[day] = DecDiv(EurOn(day), UsdOn(day))

\* A day with two observations whose rate is not the mean of their rates, next to a
\* day without observations and so without a rate.
C17_Witness ==
    /\ pc = "enrich_cashback"
    /\ \E day \in DOMAIN fx._rates :
          /\ Len(ObservationsOn(day)) = 2
          /\ fx._rates[day] # MeanRateOn(day)
          /\ day + 1 \in Days
          /\ day + 1 \notin DOMAIN fx._rates

\* The known day nearest to a day, the earlier of two equally near.
NearestKnown(day) ==
    CHOOSE known \in DOMAIN fx._rates :
        \A other \in DOMAIN fx._rates :
            \/ Abs(known - day) < Abs(other - day)
            \/ Abs(known - day) = Abs(other - day) /\ known <= other

\* C18: rate_for_date returns the rate of the query's calendar day when that day has a
\* rate, otherwise the rate of the known day at the smallest absolute distance in
\* days, the earlier one when the nearest earlier and the nearest later known day are
\* equally distant.
C18_NearestDay ==
    (query # NoQuery /\ pc # "failed") =>
        /\ DateOf(query.dt) \in DOMAIN fx._rates => query.rate = fx._rates[DateOf(query.dt)]
        /\ query.rate = fx._rates[NearestKnown(DateOf(query.dt))]

\* A query for a day without a rate, one day after a known day and one day before
\* another whose rate differs, answered with the rate of the earlier.
C18_Witness ==
    /\ query # NoQuery /\ pc # "failed"
    /\ LET day == DateOf(query.dt)
       IN  /\ day \notin DOMAIN fx._rates
           /\ day - 1 \in DOMAIN fx._rates
           /\ day + 1 \in DOMAIN fx._rates
           /\ fx._rates[day - 1] # fx._rates[day + 1]
           /\ query.rate = fx._rates[day - 1]

\* C19 as stated: with at least one observation a rate query never fails, a query
\* before the earliest known day returns the earliest day's rate and a query after the
\* latest known day the latest day's rate; the FX component fails only when there are
\* zero observations, and then a rate query raises an error and returns no rate.
C19_FailsOnlyWhenEmpty ==
    /\ pc = "failed" =>
          /\ result.fx_observations = <<>>
          /\ err.kind = "ValueError: No FX observations available"
    /\ (query # NoQuery /\ result.fx_observations = <<>>) => pc = "failed"
    /\ (query # NoQuery /\ pc # "failed") =>
          LET day   == DateOf(query.dt)
              known == fx._sorted_dates
          IN  /\ day < known[1] => query.rate = fx._rates[known[1]]
              /\ day > known[Len(known)] => query.rate = fx._rates[known[Len(known)]]

(***************************************************************************)
(* Properties of the inventory a summary reports.                          *)
(***************************************************************************)
\* The total original quantity of all the lots of an asset, of every year.
AcquiredOf(asset) ==
    SumDec([id \in DOMAIN lots |->
        IF lots[id].asset = asset THEN lots[id].quantity ELSE DecZero])

\* The total quantity of the disposals of an asset matched up to the n-th summary.
DisposedUpTo(n, asset) ==
    LET results == ResultsOf(SubSeq(outputs, 1, n))
    IN  SumDec([i \in DOMAIN results |->
            IF results[i].disposal.asset = asset THEN results[i].disposal.quantity
            ELSE DecZero])

\* What the n-th summary reports for an asset; an asset it does not list has nothing left.
ReportedOf(n, asset) ==
    IF asset \in DOMAIN outputs[n].summary.remaining_by_asset
    THEN outputs[n].summary.remaining_by_asset[asset]
    ELSE DecZero

\* C20 as stated: the inventory of a summary is cumulative: remaining_by_asset[a] is the
\* total quantity of all lots of a, of every year, minus the total quantity of the
\* disposals of a matched so far in the run, and remaining_lots is the number of lots
\* of any year with remaining > 0.
C20_CumulativeInventory ==
    /\ \A n \in DOMAIN outputs : \A asset \in Assets :
           DecEq(ReportedOf(n, asset), DecSub(AcquiredOf(asset), DisposedUpTo(n, asset)))
    /\ pc = "returned" =>
           outputs[Len(outputs)].summary.remaining_lots =
               Cardinality({id \in DOMAIN lots : DecLT(DecZero, lots[id].remaining)})

(***************************************************************************)
(* Properties of the yearly totals and of the card analysis.               *)
(***************************************************************************)
\* The number of events of a list whose timestamp falls in the year.
YearCount(events, year) == Cardinality({i \in DOMAIN events : YearOf(events[i].date) = year})

\* The sum of a field over the events of a list whose timestamp falls in the year.
YearSum(events, field, year) ==
    SumDec([i \in DOMAIN events |->
        IF YearOf(events[i].date) = year THEN events[i][field] ELSE DecZero])

\* The same, over the events of one asset.
YearSumOf(events, asset, year) ==
    SumDec([i \in DOMAIN events |->
        IF YearOf(events[i].date) = year /\ events[i].asset = asset THEN events[i].amount
        ELSE DecZero])

Listed(by_asset, asset) == IF asset \in DOMAIN by_asset THEN by_asset[asset] ELSE DecZero

EventAssets ==
    {result.interest_events[i].asset : i \in DOMAIN result.interest_events}
    \cup {result.exchange_buy_events[i].asset : i \in DOMAIN result.exchange_buy_events}

\* C21: the summary of year Y counts and sums, in its cashback, reversal, interest and
\* exchange-buy totals, the events whose timestamp falls in Y and no others, and matches
\* the disposals of Y and no others; the card analysis of year Y sums the card purchases
\* and the repayments of Y and no others.
C21_YearScoped ==
    \A n \in DOMAIN outputs :
        LET totals == outputs[n].summary.totals
            year   == totals.year
            card   == outputs[n].card_analysis
            found  == outputs[n].summary.disposal_results
        IN  /\ totals.total_cashback_events = YearCount(result.cashback_events, year)
            /\ totals.total_cashback_nexo = YearSum(result.cashback_events, "amount_nexo", year)
            /\ totals.total_cashback_eur = YearSum(result.cashback_events, "value_eur", year)
            /\ totals.total_cashback_reversal_events =
                   YearCount(result.cashback_reversal_events, year)
            /\ totals.total_cashback_reversal_eur =
                   YearSum(result.cashback_reversal_events, "value_eur", year)
            /\ totals.total_interest_events = YearCount(result.interest_events, year)
            /\ totals.total_interest_eur = YearSum(result.interest_events, "value_eur", year)
            /\ totals.total_exchange_buy_events = YearCount(result.exchange_buy_events, year)
            /\ totals.total_exchange_buy_eur =
                   YearSum(result.exchange_buy_events, "value_eur", year)
            /\ \A asset \in EventAssets :
                   /\ Listed(totals.total_interest_by_asset, asset) =
                          YearSumOf(result.interest_events, asset, year)
                   /\ Listed(totals.total_exchange_buy_by_asset, asset) =
                          YearSumOf(result.exchange_buy_events, asset, year)
            /\ Len(found) = YearCount(result.disposal_events, year)
            /\ \A i \in DOMAIN found : YearOf(found[i].disposal.date) = year
            /\ card # <<>> =>
                   /\ card.year = year
                   /\ card.total_purchase_eur =
                          YearSum(result.card_purchase_events, "eur_amount", year)
                   /\ card.total_purchase_usd =
                          YearSum(result.card_purchase_events, "usd_amount", year)
                   /\ card.total_repayment_eur =
                          YearSum(result.repayment_events, "eur_amount", year)
                   /\ card.total_repayment_usd =
                          YearSum(result.repayment_events, "usd_amount", year)

\* The summary and the card analysis of 2024 were computed from events of both years:
\* a purchase of each year and a repayment of 2025 only, or a cashback of 2025 only.
C21_Witness ==
    \E n \in DOMAIN outputs :
        /\ outputs[n].summary.totals.year = 2024
        /\ outputs[n].card_analysis # <<>>
        /\ YearCount(result.card_purchase_events, 2024) = 1
        /\ YearCount(result.card_purchase_events, 2025) = 1
        /\ outputs[n].card_analysis.total_purchase_usd = Dec(3)
        /\ \/ /\ YearCount(result.repayment_events, 2025) = 1
              /\ outputs[n].card_analysis.total_repayment_eur = DecZero
           \/ /\ YearCount(result.cashback_events, 2025) = 1
              /\ outputs[n].summary.totals.total_cashback_events = 0

\* The card analyses computed so far.
CardAnalyses == {outputs[n].card_analysis : n \in {m \in DOMAIN outputs : outputs[m].card_analysis # <<>>}}

\* C22: the FX spread of a card analysis is the repayments' EUR total less the purchases'
\* EUR total reduced by the USD mismatch (purchase USD less repayment USD) taken at the
\* purchases' own EUR per USD rate, when the purchases' USD total is positive, and zero when
\* that total is zero; with equal USD totals it is repayment EUR less purchase EUR.
C22_FxSpread ==
    \A card \in CardAnalyses :
        LET purchase_eur  == YearSum(result.card_purchase_events, "eur_amount", card.year)
            purchase_usd  == YearSum(result.card_purchase_events, "usd_amount", card.year)
            repayment_eur == YearSum(result.repayment_events, "eur_amount", card.year)
            repayment_usd == YearSum(result.repayment_events, "usd_amount", card.year)
        IN  /\ DecLT(DecZero, purchase_usd) =>
                   card.fx_spread_eur =
                       DecSub(repayment_eur,
                              DecSub(purchase_eur,
                                     DecMul(DecSub(purchase_usd, repayment_usd),
                                            DecDiv(purchase_eur, purchase_usd))))
            /\ purchase_usd = DecZero => card.fx_spread_eur = DecZero
            /\ (DecLT(DecZero, purchase_usd) /\ purchase_usd = repayment_usd) =>
                   card.fx_spread_eur = DecSub(repayment_eur, purchase_eur)

\* One year's analysis had purchases of 4 USD against repayments of 2 USD, so that the
\* mismatch moved the spread away from repayment EUR less purchase EUR; another year's
\* had repayments and no purchase, and a spread of zero.
C22_Witness ==
    /\ \E card \in CardAnalyses :
           /\ card.total_purchase_usd = Dec(4)
           /\ card.total_repayment_usd = Dec(2)
           /\ card.fx_spread_eur # DecSub(card.total_repayment_eur, card.total_purchase_eur)
    /\ \E card \in CardAnalyses :
           /\ card.total_purchase_usd = DecZero
           /\ DecLT(DecZero, card.total_repayment_eur)
           /\ card.fx_spread_eur = DecZero

\* The cashback of a year net of the reversals of the year, as the analysis is given it.
NetCashback(year) ==
    DecSub(YearSum(result.cashback_events, "value_eur", year),
           YearSum(result.cashback_reversal_events, "value_eur", year))

ThreeTenths == <<3, -1>>

\* C23: the cashback tax of a card analysis is 30% of the net cashback, the net benefit is
\* the net cashback less that tax less the FX spread, and the effective rate is the net
\* benefit over the purchases' EUR total times 100 when that total is positive and zero
\* otherwise; a year with no card activity and no cashback has zero in every field.
C23_TaxAndBenefit ==
    \A card \in CardAnalyses :
        LET purchase_eur == YearSum(result.card_purchase_events, "eur_amount", card.year)
            net_cashback == NetCashback(card.year)
        IN  /\ card.cashback_eur = net_cashback
            /\ card.cashback_tax_eur = DecMul(net_cashback, ThreeTenths)
            /\ card.net_benefit_eur =
                   DecSub(DecSub(net_cashback, card.cashback_tax_eur), card.fx_spread_eur)
            /\ DecLT(DecZero, purchase_eur) =>
                   card.effective_rate_pct =
                       DecMul(DecDiv(card.net_benefit_eur, purchase_eur), Dec(100))
            /\ ~DecLT(DecZero, purchase_eur) => card.effective_rate_pct = DecZero
            /\ (/\ YearCount(result.card_purchase_events, card.year) = 0
                /\ YearCount(result.repayment_events, card.year) = 0
                /\ net_cashback = DecZero) =>
                   \A field \in DOMAIN card \ {"year"} : card[field] = DecZero

\* One year's analysis had purchases and a positive net cashback, hence a tax and an
\* effective rate other than zero; another year's had no card event and no cashback.
C23_Witness ==
    /\ \E card \in CardAnalyses :
           /\ DecLT(DecZero, card.total_purchase_eur)
           /\ DecLT(DecZero, card.cashback_eur)
           /\ DecLT(DecZero, card.cashback_tax_eur)
           /\ card.effective_rate_pct # DecZero
    /\ \E card \in CardAnalyses :
           /\ YearCount(result.card_purchase_events, card.year) = 0
           /\ YearCount(result.repayment_events, card.year) = 0
           /\ NetCashback(card.year) = DecZero
           /\ card.net_benefit_eur = DecZero

(***************************************************************************)
(* Properties of the DisposalResult, of a run as a whole and of the order  *)
(* in which the disposals meet the ledger.                                 *)
(***************************************************************************)
\* C24: every entry recorded in DisposalResult.lots_consumed is the tuple (lot id, quantity
\* used, cost used, acquisition date of the lot), as DisposalResult declares it and as
\* print_summary unpacks it.
C24_EntryHasAcquisitionDate ==
    \A i \in DOMAIN AllResults :
        \A k \in DOMAIN AllResults[i].lots_consumed :
            LET entry == AllResults[i].lots_consumed[k]
            IN  /\ Len(entry) = 4
                /\ entry[4] = lots[LotOf(entry[1])].acquired_date

\* C25: a second call of api.run with the rows and the years of the first returns the
\* AnnualSummary and CardAnalysisSummary values the first returned, or raises what the
\* first raised: nothing the first call left behind reaches the second.
C25_SameOutputs ==
    (earlier # <<>> /\ pc \in {"done", "failed"}) =>
        /\ outputs = earlier[1].outputs
        /\ err = earlier[1].err
        /\ calls = earlier[1].calls

\* The second call has returned the summaries and card analyses of two years, computed
\* on a ledger with lots, as the first call did.
C25_Witness ==
    /\ earlier # <<>>
    /\ pc = "done"
    /\ Len(outputs) = 2
    /\ outputs[1].card_analysis # <<>>
    /\ outputs[2].card_analysis # <<>>
    /\ outputs[2].summary.remaining_lots > 0
    /\ DecLT(DecZero, outputs[1].summary.totals.total_cashback_eur)
    /\ Len(earlier[1].outputs) = 2

\* C26: no entry of lots_consumed names a lot acquired after the disposal it was consumed
\* for.
C26_NoLaterLot ==
    \A i \in DOMAIN AllResults :
        \A k \in DOMAIN AllResults[i].lots_consumed :
            lots[LotOf(AllResults[i].lots_consumed[k][1])].acquired_date
                <= AllResults[i].disposal.date

\* The year of the disposal at a place of disposal_events.
DisposalYear(j) == YearOf(result.disposal_events[j].date)

\* C27: in one run no disposal is handed to process_disposal twice, a disposal is handed
\* over only after every disposal of an earlier year has been, and when the run returns
\* every disposal of a year up to the largest requested year has been handed over.
C27_EveryDisposalOnce ==
    /\ \A j \in DOMAIN result.disposal_events : Count(calls, j) <= 1
    /\ \A k \in DOMAIN calls :
           \A j \in DOMAIN result.disposal_events :
               DisposalYear(j) < DisposalYear(calls[k]) =>
                   \E m \in 1..(k - 1) : calls[m] = j
    /\ pc = "done" =>
           \A j \in DOMAIN result.disposal_events :
               (\E n \in DOMAIN years : DisposalYear(j) <= years[n]) => Count(calls, j) = 1

Shortfall(e) == e.kind = "ValueError: Not enough lots"

\* C28: a step of process_disposal leaves the queues and the lots of the other assets as
\* they were, and when it raises the shortfall error nothing is rolled back: the queue of
\* the disposal's asset is empty, every lot of that asset has remaining = 0, and the
\* ledger and the consumptions recorded are those of the step before.
C28_ShortfallKeepsConsumption ==
    [][pc = "consuming" =>
          LET asset == Disposal.asset
          IN  /\ DOMAIN lots_by_asset' = DOMAIN lots_by_asset
              /\ \A other \in DOMAIN lots_by_asset \ {asset} :
                     lots_by_asset'[other] = lots_by_asset[other]
              /\ \A id \in DOMAIN lots : lots[id].asset # asset => lots'[id] = lots[id]
              /\ Shortfall(err') =>
                     /\ QueueOf(lots_by_asset', asset) = <<>>
                     /\ \A id \in DOMAIN lots' :
                            lots'[id].asset = asset => lots'[id].remaining = DecZero
                     /\ lots' = lots /\ lots_by_asset' = lots_by_asset /\ pd' = pd]_vars

\* The shortfall error was raised after the disposal had emptied a lot of positive
\* quantity, which stays empty and out of the queue, while another asset has lots queued.
C28_Witness ==
    /\ pc = "failed"
    /\ Shortfall(err)
    /\ pd.lots_consumed # <<>>
    /\ \A k \in DOMAIN pd.lots_consumed :
           LET lot == lots[LotOf(pd.lots_consumed[k][1])]
           IN  DecLT(DecZero, lot.quantity) /\ lot.remaining = DecZero
    /\ QueueOf(lots_by_asset, err.asset) = <<>>
    /\ \E other \in DOMAIN lots_by_asset : other # err.asset /\ lots_by_asset[other] # <<>>

\* C29: every lot of the ledger has an original quantity above zero, so that the division
\* used / lot.quantity of process_disposal is defined.
C29_PositiveQuantity ==
    \A id \in DOMAIN lots : DecLT(DecZero, lots[id].quantity)

(***************************************************************************)
(* The classifier of parser.py against the classifier of api.py.           *)
(***************************************************************************)
\* The collections of a ParseResult.
CollectionNames == DOMAIN EmptyResult

\* C30: on the same files parse_csvs of parser.py and parse_csvs_from_strings of api.py
\* return the same eight collections, the same events in the same order, and so do
\* parse_csv and parse_csv_from_string on each file.
C30_ClassifiersAgree ==
    LET files == DictReader(csv_input)
    IN  /\ \A name \in CollectionNames :
               parse_csvs(files)[name] = parse_csvs_from_strings(files)[name]
        /\ \A i \in DOMAIN files :
               \A name \in CollectionNames :
                   parse_csv(files[i])[name] = parse_csv_from_string(files[i])[name]
        /\ pc = "parsed" => result = parse_csvs(files)
        /\ pc = "parsed_file" => result = parse_csv(files[1])

\* Two files were parsed into events of two collections at least, an acquisition among
\* them, and parse_csvs returns the collections the run holds.
C30_Witness ==
    /\ pc = "parsed"
    /\ Len(csv_input) = 2
    /\ Cardinality({name \in CollectionNames : result[name] # <<>>}) >= 2
    /\ result.exchange_buy_events # <<>>
    /\ parse_csvs(DictReader(csv_input)) = result
====
